---- MODULE Spec2Model ----
(***************************************************************************)
(* A model of the newlines crate: the Newline enumeration, the packed      *)
(* ordered CharSet, the CR/CRLF disambiguation layer (Char2Newline), the   *)
(* NewlineSet value type and its lazy set-algebra iterators.               *)
(*                                                                         *)
(* Characters are modelled by their code points, Newline variants by the   *)
(* position of the variant in the enum (the order #[derive(Ord)] uses),    *)
(* Option::None by the value None.  Indices are 0-based as in the source;  *)
(* the i-th slot of an array is element i + 1 of the sequence modelling it.*)
(***************************************************************************)
EXTENDS Integers, Sequences, FiniteSets, TLC

\* ---------------------------------------------------------------- bounds
\* longest array / iterator handed to from(), from_iter() and extend()
MaxArr == 2

\* the longest array of arbitrary Newlines handed to the constructors when
\* they are compared with each other
MaxLen == 4

\* the longest string searched or converted, in chars
MaxStr == 3

\* ------------------------------------------------------------ characters
NUL == 0
LF == 10
VT == 11
FF == 12
CR == 13
NEL == 133
LS == 8232
PS == 8233

\* Option::None
None == -1

\* ------------------------------------------------------- enum Newline
LineFeed == 0
VerticalTab == 1
FormFeed == 2
CarriageReturn == 3
CrLf == 4
NextLine == 5
LineSeparator == 6
ParagraphSeparator == 7

\* Newline::COUNT
COUNT == 8

\* Newline::iter(): all the variants
Newlines == 0 .. (COUNT - 1)

\* CharType::CrLf, the result of chartype() for the two-character variant
CharTypeCrLf == -2

\* Newline::chartype(): Char(ch) is modelled by ch
chartype(nl) ==
    CASE nl = LineFeed -> LF
      [] nl = VerticalTab -> VT
      [] nl = FormFeed -> FF
      [] nl = CarriageReturn -> CR
      [] nl = CrLf -> CharTypeCrLf
      [] nl = NextLine -> NEL
      [] nl = LineSeparator -> LS
      [] nl = ParagraphSeparator -> PS

\* Newline::try_from(char).ok()
TryFromChar(ch) ==
    CASE ch = LF -> LineFeed
      [] ch = VT -> VerticalTab
      [] ch = FF -> FormFeed
      [] ch = CR -> CarriageReturn
      [] ch = NEL -> NextLine
      [] ch = LS -> LineSeparator
      [] ch = PS -> ParagraphSeparator
      [] OTHER -> None

\* ---------------------------------------------------------------- CharSet
\* the length of CharSet::data
Capacity == COUNT - 1

\* CharSet::default()
CharSetDefault == [data |-> [k \in 1 .. Capacity |-> NUL], len |-> 0]

\* CharSet::as_slice()
as_slice(cs) == SubSeq(cs.data, 1, cs.len)

\* CharSet::get(i)
CharSetGet(cs, i) == IF i < cs.len THEN cs.data[i + 1] ELSE None

\* slice::binary_search on a sorted slice: Ok(i) when slice[i] = ch,
\* otherwise Err(i) with i the place where ch could be inserted
binary_search(slice, ch) ==
    [ok |-> \E k \in 1 .. Len(slice) : slice[k] = ch,
     i  |-> Cardinality({k \in 1 .. Len(slice) : slice[k] < ch})]

\* data[i..] left as it is
rotate_right_NoShift(data, i) == data

\* data[i..].rotate_right(1)
rotate_right(data, i) ==
    [k \in 1 .. Len(data) |->
        IF k < i + 1 THEN data[k]
        ELSE IF k = i + 1 THEN data[Len(data)]
        ELSE data[k - 1]]

\* data[i..].rotate_left(1)
rotate_left(data, i) ==
    [k \in 1 .. Len(data) |->
        IF k < i + 1 THEN data[k]
        ELSE IF k = Len(data) THEN data[i + 1]
        ELSE data[k + 1]]

\* the match of CharSet::insert(ch) on the search result r: the set
\* afterwards, the value returned and whether the assertion "Attempted insert
\* on full CharSet" fired
InsertAt(cs, ch, r) ==
    IF r.ok THEN [cs |-> cs, ret |-> FALSE, panic |-> FALSE]
    ELSE IF ~(r.i < Len(cs.data)) THEN [cs |-> cs, ret |-> FALSE, panic |-> TRUE]
    ELSE [cs |-> [data |-> [rotate_right(cs.data, r.i) EXCEPT ![r.i + 1] = ch],
                  len |-> cs.len + 1],
          ret |-> TRUE, panic |-> FALSE]

\* CharSet::insert(ch)
CharSetInsert(cs, ch) == InsertAt(cs, ch, binary_search(as_slice(cs), ch))

\* the match of CharSet::remove(ch) without the write of '\0' to the freed slot
RemoveAt_NoClear(cs, r) ==
    IF r.ok
    THEN [cs |-> [data |-> rotate_left(cs.data, r.i), len |-> cs.len - 1],
          ret |-> TRUE]
    ELSE [cs |-> cs, ret |-> FALSE]

\* the match of CharSet::remove(ch) on the search result r
RemoveAt(cs, r) ==
    IF r.ok
    THEN [cs |-> [data |-> rotate_left([cs.data EXCEPT ![r.i + 1] = NUL], r.i),
                  len |-> cs.len - 1],
          ret |-> TRUE]
    ELSE [cs |-> cs, ret |-> FALSE]

\* CharSet::remove(ch)
CharSetRemove(cs, ch) == RemoveAt(cs, binary_search(as_slice(cs), ch))

\* CharSet::contains(ch)
CharSetContains(cs, ch) == binary_search(as_slice(cs), ch).ok

\* CharSet::append(ch): indexing data[len] panics when len is out of bounds
CharSetAppend(cs, ch) ==
    IF cs.len < Len(cs.data)
    THEN [cs |-> [data |-> [cs.data EXCEPT ![cs.len + 1] = ch], len |-> cs.len + 1],
          panic |-> FALSE]
    ELSE [cs |-> cs, panic |-> TRUE]

\* ------------------------------------------------------------ CharSetIter
\* CharSetIter::new(charset)
CharSetIterNew(cs) == [charset |-> cs, i |-> 0]

\* CharSetIter::peek()
peek(it) == CharSetGet(it.charset, it.i)

\* CharSetIter::peek_back()
peek_back(it) ==
    IF it.charset.len >= 1 /\ it.charset.len - 1 >= it.i
    THEN it.charset.data[it.charset.len]
    ELSE None

\* CharSetIter::next(): the item and the iterator afterwards
CharSetIterNext(it) ==
    IF it.i < it.charset.len
    THEN [inner |-> [it EXCEPT !.i = @ + 1], val |-> it.charset.data[it.i + 1]]
    ELSE [inner |-> it, val |-> None]

\* CharSetIter::next_back()
CharSetIterNextBack(it) ==
    IF it.charset.len >= 1 /\ it.charset.len - 1 >= it.i
    THEN [inner |-> [it EXCEPT !.charset.len = @ - 1], val |-> it.charset.data[it.charset.len]]
    ELSE [inner |-> it, val |-> None]

\* CharSetIter::size_hint(): both components are sz
CharSetIterSizeHint(it) == it.charset.len - it.i

\* ------------------------------------------------------------ CharSetDiff
\* CharSetDiff::new(left, right)
CharSetDiffNew(left, right) ==
    [left_iter |-> CharSetIterNew(left), right_iter |-> CharSetIterNew(right)]

\* the iterator it after one call of next()
Advanced(it) == [it EXCEPT !.i = @ + 1]

\* the match of CharSetDiff::next() with the arm for Ordering::Equal leaving
\* the right iterator where it is
DiffMatch_BothKeepsRight(d, lc, rc) ==
    IF lc # None /\ rc # None THEN
        IF lc < rc THEN [d |-> [d EXCEPT !.left_iter = Advanced(@)],
                         val |-> [tag |-> "Left", ch |-> lc]]
        ELSE IF lc = rc THEN [d |-> [d EXCEPT !.left_iter = Advanced(@)],
                              val |-> [tag |-> "Both", ch |-> lc]]
        ELSE [d |-> [d EXCEPT !.right_iter = Advanced(@)],
              val |-> [tag |-> "Right", ch |-> rc]]
    ELSE IF lc # None THEN [d |-> [d EXCEPT !.left_iter = Advanced(@)],
                            val |-> [tag |-> "Left", ch |-> lc]]
    ELSE IF rc # None THEN [d |-> [d EXCEPT !.right_iter = Advanced(@)],
                            val |-> [tag |-> "Right", ch |-> rc]]
    ELSE [d |-> d, val |-> [tag |-> "None", ch |-> NUL]]

\* the match of CharSetDiff::next() on the two peeked characters: val is a
\* Diff, a record of its tag and character, with the tag "None" for None
DiffMatch(d, lc, rc) ==
    IF lc # None /\ rc # None THEN
        IF lc < rc THEN [d |-> [d EXCEPT !.left_iter = Advanced(@)],
                         val |-> [tag |-> "Left", ch |-> lc]]
        ELSE IF lc = rc THEN [d |-> [left_iter |-> Advanced(d.left_iter),
                                     right_iter |-> Advanced(d.right_iter)],
                              val |-> [tag |-> "Both", ch |-> lc]]
        ELSE [d |-> [d EXCEPT !.right_iter = Advanced(@)],
              val |-> [tag |-> "Right", ch |-> rc]]
    ELSE IF lc # None THEN [d |-> [d EXCEPT !.left_iter = Advanced(@)],
                            val |-> [tag |-> "Left", ch |-> lc]]
    ELSE IF rc # None THEN [d |-> [d EXCEPT !.right_iter = Advanced(@)],
                            val |-> [tag |-> "Right", ch |-> rc]]
    ELSE [d |-> d, val |-> [tag |-> "None", ch |-> NUL]]

\* CharSetDiff::next()
CharSetDiffNext(d) == DiffMatch(d, peek(d.left_iter), peek(d.right_iter))

\* ------------------------------------------- the character-level consumers
RECURSIVE InnerIntersectionNext(_)
\* InnerIntersection::next(), the body of its loop on the event r: Both(ch)
IntersectionMatch(r) ==
    IF r.val.tag = "None" THEN [inner |-> r.d, val |-> None]
    ELSE IF r.val.tag = "Both" THEN [inner |-> r.d, val |-> r.val.ch]
    ELSE InnerIntersectionNext(r.d)

\* InnerIntersection::next()
InnerIntersectionNext(d) == IntersectionMatch(CharSetDiffNext(d))

RECURSIVE InnerDifferenceNext(_)
\* InnerDifference::next(), the body of its loop on the event r: Left(ch) or
\* Both('\r')
DifferenceMatch(r) ==
    IF r.val.tag = "None" THEN [inner |-> r.d, val |-> None]
    ELSE IF r.val.tag = "Left" THEN [inner |-> r.d, val |-> r.val.ch]
    ELSE IF r.val.tag = "Both" /\ r.val.ch = CR THEN [inner |-> r.d, val |-> CR]
    ELSE InnerDifferenceNext(r.d)

\* InnerDifference::next()
InnerDifferenceNext(d) == DifferenceMatch(CharSetDiffNext(d))

RECURSIVE InnerSymmetricDifferenceNext(_)
\* the body of the loop of InnerSymmetricDifference::next() without the arm
\* for Both('\r')
SymmetricDifferenceMatch_NoBothCR(r) ==
    IF r.val.tag = "None" THEN [inner |-> r.d, val |-> None]
    ELSE IF r.val.tag \in {"Left", "Right"} THEN [inner |-> r.d, val |-> r.val.ch]
    ELSE InnerSymmetricDifferenceNext(r.d)

\* InnerSymmetricDifference::next(), the body of its loop on the event r:
\* Left(ch), Right(ch) or Both('\r')
SymmetricDifferenceMatch(r) ==
    IF r.val.tag = "None" THEN [inner |-> r.d, val |-> None]
    ELSE IF r.val.tag \in {"Left", "Right"} THEN [inner |-> r.d, val |-> r.val.ch]
    ELSE IF r.val.tag = "Both" /\ r.val.ch = CR THEN [inner |-> r.d, val |-> CR]
    ELSE InnerSymmetricDifferenceNext(r.d)

\* InnerSymmetricDifference::next()
InnerSymmetricDifferenceNext(d) == SymmetricDifferenceMatch(CharSetDiffNext(d))

\* InnerUnion::next(), its match on the event r: the character of every event
UnionMatch(r) ==
    IF r.val.tag = "None" THEN [inner |-> r.d, val |-> None]
    ELSE [inner |-> r.d, val |-> r.val.ch]

\* InnerUnion::next()
InnerUnionNext(d) == UnionMatch(CharSetDiffNext(d))

\* I::next() of the type parameter I of Char2Newline<I>
InnerNext(kind, inner) ==
    CASE kind = "CharSetIter" -> CharSetIterNext(inner)
      [] kind = "InnerUnion" -> InnerUnionNext(inner)
      [] kind = "InnerIntersection" -> InnerIntersectionNext(inner)
      [] kind = "InnerDifference" -> InnerDifferenceNext(inner)
      [] kind = "InnerSymmetricDifference" -> InnerSymmetricDifferenceNext(inner)

\* I::next_back(): only CharSetIter is double-ended
InnerNextBack(kind, inner) == CharSetIterNextBack(inner)

\* I::size_hint().0: CharSetIter is exact, the others keep Iterator's default
InnerSizeHintLower(kind, inner) ==
    IF kind = "CharSetIter" THEN CharSetIterSizeHint(inner) ELSE 0

\* I::size_hint().1, with None for the default "no upper bound"
InnerSizeHintUpper(kind, inner) ==
    IF kind = "CharSetIter" THEN CharSetIterSizeHint(inner) ELSE None

\* ----------------------------------------------------------- Char2Newline
\* Char2Newline::new(inner, cr, crlf)
Char2NewlineNew(kind, inner, cr, crlf) ==
    [kind |-> kind, inner |-> inner, cr |-> cr, crlf |-> crlf,
     queued |-> None, queued_back |-> None]

RECURSIVE Char2NewlineLoop(_)
\* the body of the loop of Char2Newline::next() returning queued_back at the
\* end of the inner iterator without taking it
NextMatch_KeepQueuedBack(it, r) ==
    IF r.val = None
      THEN [it |-> [it EXCEPT !.inner = r.inner], val |-> it.queued_back]
    ELSE IF r.val = CR /\ it.cr
      THEN IF it.crlf
           THEN [it |-> [it EXCEPT !.inner = r.inner, !.queued = CrLf, !.cr = FALSE],
                 val |-> CarriageReturn]
           ELSE [it |-> [it EXCEPT !.inner = r.inner], val |-> CarriageReturn]
    ELSE IF r.val = CR /\ it.crlf
      THEN [it |-> [it EXCEPT !.inner = r.inner], val |-> CrLf]
    ELSE IF r.val = CR
      THEN Char2NewlineLoop([it EXCEPT !.inner = r.inner])
    ELSE [it |-> [it EXCEPT !.inner = r.inner], val |-> TryFromChar(r.val)]

\* Char2Newline::next(), the body of its loop on the item r.val of the inner
\* iterator, which is left as r.inner
NextMatch(it, r) ==
    IF r.val = None
      THEN [it |-> [it EXCEPT !.inner = r.inner, !.queued_back = None],
            val |-> it.queued_back]
    ELSE IF r.val = CR /\ it.cr
      THEN IF it.crlf
           THEN [it |-> [it EXCEPT !.inner = r.inner, !.queued = CrLf, !.cr = FALSE],
                 val |-> CarriageReturn]
           ELSE [it |-> [it EXCEPT !.inner = r.inner], val |-> CarriageReturn]
    ELSE IF r.val = CR /\ it.crlf
      THEN [it |-> [it EXCEPT !.inner = r.inner], val |-> CrLf]
    ELSE IF r.val = CR
      THEN Char2NewlineLoop([it EXCEPT !.inner = r.inner])
    ELSE [it |-> [it EXCEPT !.inner = r.inner], val |-> TryFromChar(r.val)]

\* the loop of Char2Newline::next()
Char2NewlineLoop(it) == NextMatch(it, InnerNext(it.kind, it.inner))

\* Char2Newline::next() dropping the queued item instead of returning it
Char2NewlineNext_DropQueued(it) == Char2NewlineLoop([it EXCEPT !.queued = None])

\* Char2Newline::next()
Char2NewlineNext(it) ==
    IF it.queued # None
    THEN [it |-> [it EXCEPT !.queued = None], val |-> it.queued]
    ELSE Char2NewlineLoop(it)

\* the match of Char2Newline::next_back() without queued_back: a '\r' with
\* both flags set yields CrLf and nothing more
NextBackMatch_NoQueue(it, r) ==
    IF r.val = None
      THEN [it |-> [it EXCEPT !.inner = r.inner, !.queued = None], val |-> it.queued]
    ELSE IF r.val = CR /\ it.crlf
      THEN [it |-> [it EXCEPT !.inner = r.inner], val |-> CrLf]
    ELSE IF r.val = CR /\ it.cr
      THEN [it |-> [it EXCEPT !.inner = r.inner], val |-> CarriageReturn]
    ELSE [it |-> [it EXCEPT !.inner = r.inner], val |-> TryFromChar(r.val)]

\* Char2Newline::next_back(), its match on the item r.val of the inner
\* iterator, which is left as r.inner
NextBackMatch(it, r) ==
    IF r.val = None
      THEN [it |-> [it EXCEPT !.inner = r.inner, !.queued = None], val |-> it.queued]
    ELSE IF r.val = CR /\ it.crlf
      THEN IF it.cr
           THEN [it |-> [it EXCEPT !.inner = r.inner, !.queued_back = CarriageReturn,
                                   !.crlf = FALSE],
                 val |-> CrLf]
           ELSE [it |-> [it EXCEPT !.inner = r.inner], val |-> CrLf]
    ELSE IF r.val = CR /\ it.cr
      THEN [it |-> [it EXCEPT !.inner = r.inner], val |-> CarriageReturn]
    ELSE [it |-> [it EXCEPT !.inner = r.inner], val |-> TryFromChar(r.val)]

\* Char2Newline::next_back()
Char2NewlineNextBack(it) ==
    IF it.queued_back # None
    THEN [it |-> [it EXCEPT !.queued_back = None], val |-> it.queued_back]
    ELSE NextBackMatch(it, InnerNextBack(it.kind, it.inner))

\* the increment of Char2Newline::size_hint() without the queued items
SizeHintInc_NoQueued(it) == IF it.cr /\ it.crlf THEN 1 ELSE 0

\* the increment Char2Newline::size_hint() adds to the inner bounds
SizeHintInc(it) ==
    (IF it.cr /\ it.crlf THEN 1 ELSE 0)
    + (IF it.queued # None THEN 1 ELSE 0)
    + (IF it.queued_back # None THEN 1 ELSE 0)

\* Char2Newline::size_hint().0
Char2NewlineSizeHintLower(it) == InnerSizeHintLower(it.kind, it.inner) + SizeHintInc(it)

\* Char2Newline::size_hint().1
Char2NewlineSizeHintUpper(it) ==
    IF it.kind = "CharSetIter"
    THEN InnerSizeHintUpper(it.kind, it.inner) + SizeHintInc(it)
    ELSE None

\* -------------------------------------------------------------- NewlineSet
\* a NewlineSet value
NewlineSet(data, len, cr, crlf) ==
    [pattern |-> [data |-> data, len |-> len], cr |-> cr, crlf |-> crlf]

\* NewlineSet::EMPTY
EMPTY == NewlineSet(<<NUL, NUL, NUL, NUL, NUL, NUL, NUL>>, 0, FALSE, FALSE)

\* NewlineSet::RUST
RUST == NewlineSet(<<LF, CR, NUL, NUL, NUL, NUL, NUL>>, 2, FALSE, TRUE)

\* NewlineSet::ASCII
ASCII == NewlineSet(<<LF, CR, NUL, NUL, NUL, NUL, NUL>>, 2, TRUE, TRUE)

\* NewlineSet::NLF
NLF == NewlineSet(<<LF, CR, NEL, NUL, NUL, NUL, NUL>>, 3, TRUE, TRUE)

\* NewlineSet::READLINE
READLINE == NewlineSet(<<LF, FF, CR, NEL, LS, PS, NUL>>, 6, TRUE, TRUE)

\* NewlineSet::UNICODE
UNICODE == NewlineSet(<<LF, VT, FF, CR, NEL, LS, PS>>, 7, TRUE, TRUE)

\* NewlineSet::ALL
ALL == NewlineSet(<<LF, VT, FF, CR, NEL, LS, PS>>, 7, TRUE, TRUE)

\* the named constants
NamedConstants == {EMPTY, RUST, ASCII, NLF, READLINE, UNICODE, ALL}

\* NewlineSet::new(), i.e. NewlineSet::default()
NewlineSetNew == [pattern |-> CharSetDefault, cr |-> FALSE, crlf |-> FALSE]

\* NewlineSet::len() without the slot CarriageReturn and CrLf share
NlLen_PatternOnly(s) == s.pattern.len

\* NewlineSet::len()
NlLen(s) == s.pattern.len + (IF s.cr /\ s.crlf THEN 1 ELSE 0)

\* NewlineSet::is_empty()
is_empty(s) == s.pattern.len = 0

\* NewlineSet::contains(nl)
contains(s, nl) ==
    LET ct == chartype(nl) IN
    IF ct = CR THEN s.cr
    ELSE IF ct = CharTypeCrLf THEN s.crlf
    ELSE CharSetContains(s.pattern, ct)

\* the tail of insert() given the outcome r of self.pattern.insert(ch)
PatternInserted(s, r) ==
    [set |-> [s EXCEPT !.pattern = r.cs], ret |-> r.ret, panic |-> r.panic]

\* the tail of insert(): self.pattern.insert(ch)
PatternInsert(s, ch) == PatternInserted(s, CharSetInsert(s.pattern, ch))

\* NewlineSet::insert(nl) without the early returns for the shared '\r'
insert_NoEarlyReturn(s, nl) ==
    LET ct == chartype(nl) IN
    IF ct = CR THEN
        IF s.cr THEN [set |-> s, ret |-> FALSE, panic |-> FALSE]
        ELSE PatternInsert([s EXCEPT !.cr = TRUE], CR)
    ELSE IF ct = CharTypeCrLf THEN
        IF s.crlf THEN [set |-> s, ret |-> FALSE, panic |-> FALSE]
        ELSE PatternInsert([s EXCEPT !.crlf = TRUE], CR)
    ELSE PatternInsert(s, ct)

\* NewlineSet::insert(nl)
insert(s, nl) ==
    LET ct == chartype(nl) IN
    IF ct = CR THEN
        IF s.cr THEN [set |-> s, ret |-> FALSE, panic |-> FALSE]
        ELSE IF s.crlf THEN [set |-> [s EXCEPT !.cr = TRUE], ret |-> TRUE, panic |-> FALSE]
        ELSE PatternInsert([s EXCEPT !.cr = TRUE], CR)
    ELSE IF ct = CharTypeCrLf THEN
        IF s.crlf THEN [set |-> s, ret |-> FALSE, panic |-> FALSE]
        ELSE IF s.cr THEN [set |-> [s EXCEPT !.crlf = TRUE], ret |-> TRUE, panic |-> FALSE]
        ELSE PatternInsert([s EXCEPT !.crlf = TRUE], CR)
    ELSE PatternInsert(s, ct)

\* the tail of remove() with the pattern left as it was
PatternRemoved_KeepPattern(s, r) == [set |-> s, ret |-> r.ret]

\* the tail of remove() given the outcome r of self.pattern.remove(ch)
PatternRemoved(s, r) == [set |-> [s EXCEPT !.pattern = r.cs], ret |-> r.ret]

\* the tail of remove(): self.pattern.remove(ch)
PatternRemove(s, ch) == PatternRemoved(s, CharSetRemove(s.pattern, ch))

\* NewlineSet::remove(nl) taking '\r' out of pattern although the other of
\* CarriageReturn and CrLf is still in the set
remove_DropsSharedCR(s, nl) ==
    LET ct == chartype(nl) IN
    IF ct = CR THEN
        IF ~s.cr THEN [set |-> s, ret |-> FALSE]
        ELSE PatternRemove([s EXCEPT !.cr = FALSE], CR)
    ELSE IF ct = CharTypeCrLf THEN
        IF ~s.crlf THEN [set |-> s, ret |-> FALSE]
        ELSE PatternRemove([s EXCEPT !.crlf = FALSE], CR)
    ELSE PatternRemove(s, ct)

\* NewlineSet::remove(nl)
remove(s, nl) ==
    LET ct == chartype(nl) IN
    IF ct = CR THEN
        IF ~s.cr THEN [set |-> s, ret |-> FALSE]
        ELSE IF s.crlf THEN [set |-> [s EXCEPT !.cr = FALSE], ret |-> TRUE]
        ELSE PatternRemove([s EXCEPT !.cr = FALSE], CR)
    ELSE IF ct = CharTypeCrLf THEN
        IF ~s.crlf THEN [set |-> s, ret |-> FALSE]
        ELSE IF s.cr THEN [set |-> [s EXCEPT !.crlf = FALSE], ret |-> TRUE]
        ELSE PatternRemove([s EXCEPT !.crlf = FALSE], CR)
    ELSE PatternRemove(s, ct)

\* NewlineSet::clear()
clear(s) == NewlineSetNew

RECURSIVE InsertAll(_, _, _)
\* the fold of Extend::extend() and FromIterator::from_iter(): insert each
\* item in turn; panic once an insert has panicked
InsertedOne(r, items, k) ==
    IF r.panic THEN [set |-> r.set, panic |-> TRUE]
    ELSE InsertAll(r.set, items, k + 1)

\* the fold of Extend::extend() and FromIterator::from_iter()
InsertAll(s, items, k) ==
    IF k > Len(items) THEN [set |-> s, panic |-> FALSE]
    ELSE InsertedOne(insert(s, items[k]), items, k)

\* Extend::extend(iter)
extend(s, items) == InsertAll(s, items, 1)

\* FromIterator::from_iter(iter)
from_iter(items) == InsertAll(NewlineSetNew, items, 1)

\* From<Newline>::from(nl)
FromNewline(nl) == insert(NewlineSetNew, nl).set

\* the character a Newline is appended as, with CrLf given a character of
\* its own
LeadChar_CrLfOwn(ct) == ct

\* the character a Newline is appended as: '\r' for CrLf
LeadChar(ct) == IF ct = CharTypeCrLf THEN CR ELSE ct

\* the flag a Newline sets: cr for CarriageReturn, crlf for CrLf
Flagged(s, ct) ==
    IF ct = CR THEN [s EXCEPT !.cr = TRUE]
    ELSE IF ct = CharTypeCrLf THEN [s EXCEPT !.crlf = TRUE]
    ELSE s

RECURSIVE AppendAll(_, _, _, _)
\* the loop after pattern.append(ch) with the outcome r
Appended(s1, r, ch, items, k) ==
    IF r.panic THEN [set |-> s1, panic |-> TRUE]
    ELSE AppendAll([s1 EXCEPT !.pattern = r.cs], ch, items, k + 1)

\* one round of the loop without the comparison with prev_char: the character
\* of every item is appended
AppendOne_NoPrev(s1, prev_char, ch, items, k) ==
    Appended(s1, CharSetAppend(s1.pattern, ch), ch, items, k)

\* one round of the loop: s1 is the set with the flag of the item set, ch the
\* character of the item, appended unless it repeats the previous one
AppendOne(s1, prev_char, ch, items, k) ==
    IF prev_char # ch
    THEN Appended(s1, CharSetAppend(s1.pattern, ch), ch, items, k)
    ELSE AppendAll(s1, ch, items, k + 1)

\* the loop shared by From<[Newline; N]>::from and into_newline_set(): set the
\* flag of each item and append its leading character unless it repeats the
\* previous one
AppendAll(s, prev_char, items, k) ==
    IF k > Len(items) THEN [set |-> s, panic |-> FALSE]
    ELSE AppendOne(Flagged(s, chartype(items[k])), prev_char,
                   LeadChar(chartype(items[k])), items, k)

RECURSIVE InsertSorted(_, _)
\* one item put at its place in an ascending sequence
InsertSorted(sorted, x) ==
    IF sorted = <<>> THEN <<x>>
    ELSE IF x <= Head(sorted) THEN <<x>> \o sorted
    ELSE <<Head(sorted)>> \o InsertSorted(Tail(sorted), x)

RECURSIVE sort_unstable(_)
\* arr.sort_unstable() leaving the items in the order given
sort_unstable_Unsorted(arr) == arr

\* arr.sort_unstable(): the items in ascending order, repetitions kept
sort_unstable(arr) ==
    IF arr = <<>> THEN <<>>
    ELSE InsertSorted(sort_unstable(Tail(arr)), Head(arr))

\* From<[Newline; N]>::from(arr)
FromArray(arr) == AppendAll(NewlineSetNew, None, sort_unstable(arr), 1)

\* AscendingNewlines::into_newline_set() applied to the items an iterator yields
into_newline_set(items) == AppendAll(NewlineSetNew, None, items, 1)

RECURSIVE DisjointLoop(_, _, _)
\* the match of is_disjoint() taking every Both, '\r' included, for a shared
\* member
DisjointMatch_AnyBoth(s, other, r) ==
    IF r.val.tag = "None" THEN TRUE
    ELSE IF r.val.tag \in {"Left", "Right"} THEN DisjointLoop(s, other, r.d)
    ELSE FALSE

\* the match of is_disjoint() on the event r: Both('\r') is shared only when
\* a flag is shared, any other Both is a shared member
DisjointMatch(s, other, r) ==
    IF r.val.tag = "None" THEN TRUE
    ELSE IF r.val.tag \in {"Left", "Right"} THEN DisjointLoop(s, other, r.d)
    ELSE IF r.val.ch = CR
      THEN IF (s.cr /\ other.cr) \/ (s.crlf /\ other.crlf) THEN FALSE
           ELSE DisjointLoop(s, other, r.d)
    ELSE FALSE

\* the loop of is_disjoint() over self.pattern.diff(other.pattern)
DisjointLoop(s, other, d) == DisjointMatch(s, other, CharSetDiffNext(d))

\* NewlineSet::is_disjoint(other)
is_disjoint(s, other) == DisjointLoop(s, other, CharSetDiffNew(s.pattern, other.pattern))

RECURSIVE SubsetLoop(_, _, _)
\* the match of is_subset() without the arm for Both('\r'): every Both is
\* passed over
SubsetMatch_NoBothCR(s, other, r) ==
    IF r.val.tag = "None" THEN TRUE
    ELSE IF r.val.tag = "Left" THEN FALSE
    ELSE SubsetLoop(s, other, r.d)

\* the match of is_subset() on the event r: Left(ch) is a member other lacks,
\* Both('\r') is one when a flag of self is not a flag of other
SubsetMatch(s, other, r) ==
    IF r.val.tag = "None" THEN TRUE
    ELSE IF r.val.tag = "Both" /\ r.val.ch = CR
      THEN IF (s.cr /\ ~other.cr) \/ (s.crlf /\ ~other.crlf) THEN FALSE
           ELSE SubsetLoop(s, other, r.d)
    ELSE IF r.val.tag = "Left" THEN FALSE
    ELSE SubsetLoop(s, other, r.d)

\* the loop of is_subset() over self.pattern.diff(other.pattern)
SubsetLoop(s, other, d) == SubsetMatch(s, other, CharSetDiffNext(d))

\* NewlineSet::is_subset(other)
is_subset(s, other) == SubsetLoop(s, other, CharSetDiffNew(s.pattern, other.pattern))

\* NewlineSet::is_superset(other)
is_superset(s, other) == is_subset(other, s)

\* ------------------------------------------------------ the lazy iterators
\* IntoIter::new(nlset), also NewlineSet::iter()
IntoIterNew(s) ==
    Char2NewlineNew("CharSetIter", CharSetIterNew(s.pattern), s.cr, s.crlf)

\* Union::new(nlset1, nlset2) with the flags of the intersection
UnionNew_AndFlags(s1, s2) ==
    Char2NewlineNew("InnerUnion", CharSetDiffNew(s1.pattern, s2.pattern),
                    s1.cr /\ s2.cr, s1.crlf /\ s2.crlf)

\* Union::new(nlset1, nlset2)
UnionNew(s1, s2) ==
    Char2NewlineNew("InnerUnion", CharSetDiffNew(s1.pattern, s2.pattern),
                    s1.cr \/ s2.cr, s1.crlf \/ s2.crlf)

\* Intersection::new(nlset1, nlset2) with the flags of the union
IntersectionNew_OrFlags(s1, s2) ==
    Char2NewlineNew("InnerIntersection", CharSetDiffNew(s1.pattern, s2.pattern),
                    s1.cr \/ s2.cr, s1.crlf \/ s2.crlf)

\* Intersection::new(nlset1, nlset2)
IntersectionNew(s1, s2) ==
    Char2NewlineNew("InnerIntersection", CharSetDiffNew(s1.pattern, s2.pattern),
                    s1.cr /\ s2.cr, s1.crlf /\ s2.crlf)

\* SymmetricDifference::new(nlset1, nlset2)
SymmetricDifferenceNew(s1, s2) ==
    Char2NewlineNew("InnerSymmetricDifference", CharSetDiffNew(s1.pattern, s2.pattern),
                    s1.cr # s2.cr, s1.crlf # s2.crlf)

\* Difference::new(nlset1, nlset2) with the flags of nlset1 kept as they are
DifferenceNew_KeepFlags(s1, s2) ==
    Char2NewlineNew("InnerDifference", CharSetDiffNew(s1.pattern, s2.pattern),
                    s1.cr, s1.crlf)

\* Difference::new(nlset1, nlset2)
DifferenceNew(s1, s2) ==
    Char2NewlineNew("InnerDifference", CharSetDiffNew(s1.pattern, s2.pattern),
                    s1.cr /\ ~s2.cr, s1.crlf /\ ~s2.crlf)

\* Complement::new(nlset) with the flags of nlset kept as they are
ComplementNew_KeepFlags(s) ==
    Char2NewlineNew("InnerDifference", CharSetDiffNew(ALL.pattern, s.pattern),
                    s.cr, s.crlf)

\* Complement::new(nlset)
ComplementNew(s) ==
    Char2NewlineNew("InnerDifference", CharSetDiffNew(ALL.pattern, s.pattern),
                    ~s.cr, ~s.crlf)

RECURSIVE Collect(_)
\* the items collected from the outcome r of next()
Collected(r) == IF r.val = None THEN <<>> ELSE <<r.val>> \o Collect(r.it)

\* the items an iterator yields when next() is called until it returns None
Collect(it) == Collected(Char2NewlineNext(it))

RECURSIVE CollectRev(_)
\* the items collected from the outcome r of next_back()
CollectedRev(r) == IF r.val = None THEN <<>> ELSE <<r.val>> \o CollectRev(r.it)

\* the items an iterator yields when next_back() is called until it returns None
CollectRev(it) == CollectedRev(Char2NewlineNextBack(it))

\* ops::BitOr for NewlineSet
bitor(s1, s2) == into_newline_set(Collect(UnionNew(s1, s2)))

\* ops::BitAnd for NewlineSet
bitand(s1, s2) == into_newline_set(Collect(IntersectionNew(s1, s2)))

\* ops::BitXor for NewlineSet
bitxor(s1, s2) == into_newline_set(Collect(SymmetricDifferenceNew(s1, s2)))

\* ops::Sub for NewlineSet
sub(s1, s2) == into_newline_set(Collect(DifferenceNew(s1, s2)))

\* ops::Not for NewlineSet
not(s) == into_newline_set(Collect(ComplementNew(s)))

\* ----------------------------------- the operators with a Newline on the left
\* the outcome of an insert as an operator result
Outcome(r) == [set |-> r.set, panic |-> r.panic]

\* ops::BitAnd for Newline: nl & rhs
NlBitAnd(nl, rhs) ==
    IF contains(rhs, nl)
    THEN [set |-> FromNewline(nl), panic |-> FALSE]
    ELSE [set |-> NewlineSetNew, panic |-> FALSE]

\* ops::BitOr for Newline: nl | rhs
NlBitOr(nl, rhs) == Outcome(insert(rhs, nl))

\* nl ^ rhs after nlset.remove(self) without the insert for a Newline that
\* was not in rhs
XorRemoved_NeverInsert(nl, r) == [set |-> r.set, panic |-> FALSE]

\* nl ^ rhs after nlset.remove(self) with the outcome r: insert nl if it was
\* not removed
XorRemoved(nl, r) ==
    IF ~r.ret THEN Outcome(insert(r.set, nl))
    ELSE [set |-> r.set, panic |-> FALSE]

\* ops::BitXor for Newline: nl ^ rhs
NlBitXor(nl, rhs) == XorRemoved(nl, remove(rhs, nl))

\* ops::Sub for Newline: nl - rhs
NlSub(nl, rhs) ==
    IF contains(rhs, nl)
    THEN [set |-> NewlineSetNew, panic |-> FALSE]
    ELSE [set |-> FromNewline(nl), panic |-> FALSE]

\* ops::Not for Newline: !nl
NlNot(nl) == [set |-> remove(ALL, nl).set, panic |-> FALSE]

\* ----------------------------------------------------- Newline conversions
\* Newline::as_str(): a &str is modelled by the sequence of its chars
as_str(nl) ==
    CASE nl = LineFeed -> <<LF>>
      [] nl = VerticalTab -> <<VT>>
      [] nl = FormFeed -> <<FF>>
      [] nl = CarriageReturn -> <<CR>>
      [] nl = CrLf -> <<CR, LF>>
      [] nl = NextLine -> <<NEL>>
      [] nl = LineSeparator -> <<LS>>
      [] nl = ParagraphSeparator -> <<PS>>

\* a value of Option<T>
Option(v) == IF v = None THEN [tag |-> "None"] ELSE [tag |-> "Some", val |-> v]

\* Newline::as_char()
as_char(nl) == Option(IF chartype(nl) = CharTypeCrLf THEN None ELSE chartype(nl))

\* the match of TryFrom<char> on value, nl the arm taken: Ok(nl), or
\* Err(TryFromCharError(ch)) with the char rejected
TryFromCharMatch(value, nl) ==
    IF nl # None THEN [tag |-> "Ok", val |-> nl] ELSE [tag |-> "Err", val |-> value]

\* Newline::try_from(char)
TryFromCharResult(value) == TryFromCharMatch(value, TryFromChar(value))

\* TryFrom<&str> for Newline without the arm for "\r\n"
TryFromStr_NoCrLf(value) ==
    CASE value = <<LF>> -> [tag |-> "Ok", val |-> LineFeed]
      [] value = <<VT>> -> [tag |-> "Ok", val |-> VerticalTab]
      [] value = <<FF>> -> [tag |-> "Ok", val |-> FormFeed]
      [] value = <<CR>> -> [tag |-> "Ok", val |-> CarriageReturn]
      [] value = <<NEL>> -> [tag |-> "Ok", val |-> NextLine]
      [] value = <<LS>> -> [tag |-> "Ok", val |-> LineSeparator]
      [] value = <<PS>> -> [tag |-> "Ok", val |-> ParagraphSeparator]
      [] OTHER -> [tag |-> "Err", val |-> None]

\* Newline::try_from(&str): Ok(nl) or Err(TryFromStrError)
TryFromStr(value) ==
    CASE value = <<LF>> -> [tag |-> "Ok", val |-> LineFeed]
      [] value = <<VT>> -> [tag |-> "Ok", val |-> VerticalTab]
      [] value = <<FF>> -> [tag |-> "Ok", val |-> FormFeed]
      [] value = <<CR>> -> [tag |-> "Ok", val |-> CarriageReturn]
      [] value = <<CR, LF>> -> [tag |-> "Ok", val |-> CrLf]
      [] value = <<NEL>> -> [tag |-> "Ok", val |-> NextLine]
      [] value = <<LS>> -> [tag |-> "Ok", val |-> LineSeparator]
      [] value = <<PS>> -> [tag |-> "Ok", val |-> ParagraphSeparator]
      [] OTHER -> [tag |-> "Err", val |-> None]

\* ----------------------------------------------------------------- strings
\* char::len_utf8(): the bytes of the UTF-8 encoding of a char
Utf8Len(c) ==
    IF c < 128 THEN 1 ELSE IF c < 2048 THEN 2 ELSE IF c < 65536 THEN 3 ELSE 4

RECURSIVE StrLen(_)
\* str::len(): the length of a string in bytes
StrLen(s) == IF s = <<>> THEN 0 ELSE Utf8Len(Head(s)) + StrLen(Tail(s))

\* Newline::len_utf8()
len_utf8(nl) == StrLen(as_str(nl))

\* the byte offset at which the k-th char of s starts; that of the end of s
\* for k = Len(s) + 1
ByteOffset(s, k) == StrLen(SubSeq(s, 1, k - 1))

\* the char that starts at the byte offset off of s, as its position in s
CharIndex(s, off) == CHOOSE k \in 1 .. Len(s) + 1 : ByteOffset(s, k) = off

\* &s[off..]
SliceFrom(s, off) == SubSeq(s, CharIndex(s, off), Len(s))

\* &s[..off]
SliceTo(s, off) == SubSeq(s, 1, CharIndex(s, off) - 1)

\* str::starts_with(prefix)
starts_with(s, prefix) ==
    Len(prefix) <= Len(s) /\ SubSeq(s, 1, Len(prefix)) = prefix

\* str::ends_with(suffix)
ends_with(s, suffix) ==
    Len(suffix) <= Len(s) /\ SubSeq(s, Len(s) - Len(suffix) + 1, Len(s)) = suffix

\* s.chars().next()
FirstChar(s) == IF s = <<>> THEN None ELSE Head(s)

\* the positions in s of the chars that are in the slice pat
Hits(s, pat) == {k \in 1 .. Len(s) : \E j \in 1 .. Len(pat) : pat[j] = s[k]}

\* the byte offset of the first of the positions H of s, None when there is none
FirstOf(s, H) ==
    IF H = {} THEN None ELSE ByteOffset(s, CHOOSE k \in H : \A j \in H : k <= j)

\* the byte offset of the last of the positions H of s, None when there is none
LastOf(s, H) ==
    IF H = {} THEN None ELSE ByteOffset(s, CHOOSE k \in H : \A j \in H : j <= k)

\* str::find(&[char]): the byte offset of the first char of s that is in pat
find(s, pat) == FirstOf(s, Hits(s, pat))

\* str::rfind(&[char]): the byte offset of the last char of s that is in pat
rfind(s, pat) == LastOf(s, Hits(s, pat))

\* ----------------------------------------------------------- NewlinePattern
\* NewlineSet::pattern()
pattern(set) == as_slice(set.pattern)

\* Option<Match>::None
NoMatch == [tag |-> "None"]

\* a call that ended in unreachable!()
Unreachable == [tag |-> "Panic"]

\* Some(Match { start, end, newline, before, after }) for the Newline the
\* char at start maps to; unreachable!() when it maps to none.  The offsets
\* are far from usize::MAX, where saturating_add is the sum.
MatchAt(s, start, newline) ==
    IF newline = None THEN Unreachable
    ELSE [tag |-> "Some",
          start |-> start,
          end |-> start + len_utf8(newline),
          newline |-> newline,
          before |-> SliceTo(s, start),
          after |-> SliceFrom(s, start + len_utf8(newline))]

\* NewlineSet::search(s) from the offset start that find() returned
SearchFound(set, s, start) ==
    IF start = None THEN NoMatch
    ELSE IF set.crlf /\ starts_with(SliceFrom(s, start), <<CR, LF>>)
      THEN MatchAt(s, start, CrLf)
    ELSE MatchAt(s, start, TryFromChar(FirstChar(SliceFrom(s, start))))

\* NewlinePattern::search for NewlineSet
search(set, s) ==
    IF is_empty(set) THEN NoMatch ELSE SearchFound(set, s, find(s, pattern(set)))

\* the loop of NewlineSet::rsearch(s) returns the Option<Match> m
Return(s_end, m) == [done |-> TRUE, s_end |-> s_end, res |-> m]

\* the body of the loop of rsearch() without the arm that skips a '\r' when
\* CarriageReturn is not in the set
RSearchFound_NoSkip(set, s, s_end, start) ==
    IF start = None THEN Return(s_end, NoMatch)
    ELSE IF /\ set.crlf
            /\ CharSetContains(set.pattern, LF)
            /\ starts_with(SliceFrom(s, start), <<LF>>)
            /\ ends_with(SliceTo(s, start), <<CR>>)
      THEN Return(s_end, MatchAt(s, start - 1, CrLf))
    ELSE IF /\ set.crlf
            /\ ~CharSetContains(set.pattern, LF)
            /\ starts_with(SliceFrom(s, start), <<CR, LF>>)
      THEN Return(s_end, MatchAt(s, start, CrLf))
    ELSE Return(s_end, MatchAt(s, start, TryFromChar(FirstChar(SliceFrom(s, start)))))

\* the body of the loop of rsearch() with a skip that leaves s_end as it was
RSearchFound_KeepBound(set, s, s_end, start) ==
    IF start = None THEN Return(s_end, NoMatch)
    ELSE IF /\ set.crlf
            /\ CharSetContains(set.pattern, LF)
            /\ starts_with(SliceFrom(s, start), <<LF>>)
            /\ ends_with(SliceTo(s, start), <<CR>>)
      THEN Return(s_end, MatchAt(s, start - 1, CrLf))
    ELSE IF /\ set.crlf
            /\ ~CharSetContains(set.pattern, LF)
            /\ starts_with(SliceFrom(s, start), <<CR, LF>>)
      THEN Return(s_end, MatchAt(s, start, CrLf))
    ELSE IF TryFromChar(FirstChar(SliceFrom(s, start))) = CarriageReturn /\ ~set.cr
      THEN [done |-> FALSE, s_end |-> s_end, res |-> NoMatch]
    ELSE Return(s_end, MatchAt(s, start, TryFromChar(FirstChar(SliceFrom(s, start)))))

\* the body of the loop of rsearch() from the offset start that rfind()
\* returned: the loop returns, or goes on with s_end = start
RSearchFound(set, s, s_end, start) ==
    IF start = None THEN Return(s_end, NoMatch)
    ELSE IF /\ set.crlf
            /\ CharSetContains(set.pattern, LF)
            /\ starts_with(SliceFrom(s, start), <<LF>>)
            /\ ends_with(SliceTo(s, start), <<CR>>)
      THEN Return(s_end, MatchAt(s, start - 1, CrLf))
    ELSE IF /\ set.crlf
            /\ ~CharSetContains(set.pattern, LF)
            /\ starts_with(SliceFrom(s, start), <<CR, LF>>)
      THEN Return(s_end, MatchAt(s, start, CrLf))
    ELSE IF TryFromChar(FirstChar(SliceFrom(s, start))) = CarriageReturn /\ ~set.cr
      THEN [done |-> FALSE, s_end |-> start, res |-> NoMatch]
    ELSE Return(s_end, MatchAt(s, start, TryFromChar(FirstChar(SliceFrom(s, start)))))

\* one pass of the loop of rsearch(): rfind() on s[..s_end]
RSearchIter(set, s, s_end) ==
    RSearchFound(set, s, s_end, rfind(SliceTo(s, s_end), pattern(set)))

RECURSIVE RSearchLoop(_, _, _)
\* the loop of rsearch() after the pass with the outcome r
RSearchContinue(set, s, r) ==
    IF r.done THEN r.res ELSE RSearchLoop(set, s, r.s_end)

\* the loop of rsearch() from the bound s_end
RSearchLoop(set, s, s_end) == RSearchContinue(set, s, RSearchIter(set, s, s_end))

\* NewlinePattern::rsearch for NewlineSet
rsearch(set, s) ==
    IF is_empty(set) THEN NoMatch ELSE RSearchLoop(set, s, StrLen(s))

\* ------------------------------------------------------------ the machine
VARIABLES
    a,        \* the NewlineSet the calls are made on (the left operand)
    b,        \* the right operand of the lazy set operations
    op,       \* the call whose result the caller holds, "idle" when none
    arg,      \* its Newline argument, None when it takes none
    ret,      \* the bool it returned, FALSE when it returns none
    n,        \* the usize it returned, 0 when it returns none
    out,      \* the Newlines yielded by the iterator it drained, or by next()
    panicked, \* whether a call has panicked
    arr,      \* the array or item sequence it was handed, <<>> when none
    it,       \* the iterator the caller holds, NoIter when none
    back,     \* the Newlines yielded by next_back() of that iterator
    text,     \* the string handed to search(), rsearch() and try_from()
    ch,       \* the char handed to try_from() and to the calls on cs
    res,      \* the Option or Result a search or conversion returned
    s_end,    \* the local s_end of rsearch() while it is in its loop
    cs,       \* the CharSet the calls of insert() and remove() are made on
    live,     \* the chars handed to cs.insert() and not to cs.remove() since
    d,        \* the CharSetDiff the caller holds
    src       \* the Char2Newline as it was constructed, before any call

vars == <<a, b, op, arg, ret, n, out, panicked, arr, it, back,
          text, ch, res, s_end, cs, live, d, src>>

\* the state of the string search, of the conversions and of the bare
\* CharSet, CharSetDiff and Char2Newline
low == <<text, ch, res, s_end, cs, live, d, src>>

\* no iterator is held
NoIter == Char2NewlineNew("none", CharSetIterNew(CharSetDefault), FALSE, FALSE)

\* no Option or Result is held
NoRes == [tag |-> "None"]

\* no string, char, CharSet, CharSetDiff or bare Char2Newline is in use
NoLow ==
    /\ text = <<>>
    /\ ch = None
    /\ res = NoRes
    /\ s_end = 0
    /\ cs = CharSetDefault
    /\ live = {}
    /\ d = CharSetDiffNew(CharSetDefault, CharSetDefault)
    /\ src = NoIter

\* the call took no array and left no iterator
NoArrNoIter == arr' = <<>> /\ it' = NoIter /\ back' = <<>> /\ UNCHANGED low

\* the arrays and item sequences handed to from(), from_iter() and extend()
Arrays == UNION {[1 .. k -> Newlines] : k \in 0 .. MaxArr}

RECURSIVE Asc(_)
\* the members of a set of Newlines in ascending order
Asc(S) ==
    IF S = {} THEN <<>>
    ELSE LET m == CHOOSE x \in S : \A y \in S : x <= y IN <<m>> \o Asc(S \ {m})

\* a sequence back to front
Reverse(q) == [k \in 1 .. Len(q) |-> q[Len(q) + 1 - k]]

\* every set of Newlines, each built by from_iter() from its members
AllSets == {from_iter(Asc(S)).set : S \in SUBSET Newlines}

\* the right-hand sides of the assigning operators, T: Into<NewlineSet>
Rhs == AllSets

\* no call is in progress and no result is held
Idle == op = "idle"

\* the Newlines a set contains
Members(s) == {nl \in Newlines : contains(s, nl)}

\* a call replaces the receiver by the value r.set, or panics
Assign(name, r) ==
    /\ a' = r.set
    /\ panicked' = r.panic
    /\ op' = name
    /\ arg' = None
    /\ ret' = FALSE
    /\ n' = 0
    /\ out' = <<>>
    /\ b' = b
    /\ NoArrNoIter

\* a call handed the items replaces the receiver by the value r.set, or panics
Built(name, items, r) ==
    /\ a' = r.set
    /\ panicked' = r.panic
    /\ op' = name
    /\ arg' = None
    /\ ret' = FALSE
    /\ n' = 0
    /\ out' = <<>>
    /\ b' = b
    /\ arr' = items
    /\ it' = NoIter
    /\ back' = <<>>
    /\ UNCHANGED low

\* a call with the argument nl leaves the receiver as r.set and returns r.ret
Returned(name, nl, r, panic) ==
    /\ a' = r.set
    /\ ret' = r.ret
    /\ panicked' = panic
    /\ op' = name
    /\ arg' = nl
    /\ n' = 0
    /\ out' = <<>>
    /\ b' = b
    /\ NoArrNoIter

\* the outcome of insert(): the set, the bool returned and whether it panicked
Inserted(nl, r) == Returned("insert", nl, r, r.panic)

\* a.insert(nl)
Insert ==
    /\ Idle
    /\ \E nl \in Newlines : Inserted(nl, insert(a, nl))

\* a.remove(nl)
Remove ==
    /\ Idle
    /\ \E nl \in Newlines : Returned("remove", nl, remove(a, nl), FALSE)

\* a.clear()
Clear ==
    /\ Idle
    /\ Assign("clear", [set |-> clear(a), panic |-> FALSE])

\* a.extend(items)
Extend ==
    /\ Idle
    /\ \E items \in Arrays : Built("extend", items, extend(a, items))

\* a |= rhs
BitOrAssign ==
    /\ Idle
    /\ \E rhs \in Rhs : Assign("bitor_assign", bitor(a, rhs))

\* a &= rhs
BitAndAssign ==
    /\ Idle
    /\ \E rhs \in Rhs : Assign("bitand_assign", bitand(a, rhs))

\* a ^= rhs
BitXorAssign ==
    /\ Idle
    /\ \E rhs \in Rhs : Assign("bitxor_assign", bitxor(a, rhs))

\* a -= rhs
SubAssign ==
    /\ Idle
    /\ \E rhs \in Rhs : Assign("sub_assign", sub(a, rhs))

\* a = !a
Not ==
    /\ Idle
    /\ Assign("not", not(a))

\* a query returns without changing the receiver
Query(name, r, len, items) ==
    /\ op' = name
    /\ arg' = None
    /\ ret' = r
    /\ n' = len
    /\ out' = items
    /\ NoArrNoIter
    /\ UNCHANGED <<a, b, panicked>>

\* a.len()
GetLen == Idle /\ Query("len", FALSE, NlLen(a), <<>>)

\* a.is_empty()
IsEmpty == Idle /\ Query("is_empty", is_empty(a), 0, <<>>)

\* a.iter() drained with next()
Iter == Idle /\ Query("iter", FALSE, 0, Collect(IntoIterNew(a)))

\* a.iter() drained with next_back()
IterRev == Idle /\ Query("iter_rev", FALSE, 0, CollectRev(IntoIterNew(a)))

\* a.complement() drained with next()
ComplementIter == Idle /\ Query("complement", FALSE, 0, Collect(ComplementNew(a)))

\* the caller drops the result it holds; a panic has ended the program
Drop ==
    /\ ~Idle
    /\ ~panicked
    /\ op' = "idle"
    /\ arg' = None
    /\ ret' = FALSE
    /\ n' = 0
    /\ out' = <<>>
    /\ NoArrNoIter
    /\ UNCHANGED <<a, b, panicked>>

\* the program starts with a constructed value
Constructed(name, items, r) ==
    /\ arr = items
    /\ it = NoIter
    /\ back = <<>>
    /\ a = r.set
    /\ panicked = r.panic
    /\ op = name
    /\ arg = None
    /\ ret = FALSE
    /\ n = 0
    /\ out = <<>>
    /\ b = NewlineSetNew
    /\ NoLow

\* NewlineSet::new()
New == Constructed("new", <<>>, [set |-> NewlineSetNew, panic |-> FALSE])

\* one of the named constants
Const == \E c \in NamedConstants : Constructed("const", <<>>, [set |-> c, panic |-> FALSE])

\* NewlineSet::from(nl)
From == \E nl \in Newlines :
            Constructed("from", <<>>, [set |-> FromNewline(nl), panic |-> FALSE])

\* NewlineSet::from(arr)
FromArr == \E items \in Arrays : Constructed("from_array", items, FromArray(items))

\* NewlineSet::from_iter(items)
FromIter == \E items \in Arrays : Constructed("from_iter", items, from_iter(items))

Init ==
    \/ New
    \/ Const
    \/ From
    \/ FromArr
    \/ FromIter

Next ==
    \/ Insert
    \/ Remove
    \/ Clear
    \/ Extend
    \/ BitOrAssign
    \/ BitAndAssign
    \/ BitXorAssign
    \/ SubAssign
    \/ Not
    \/ GetLen
    \/ IsEmpty
    \/ Iter
    \/ IterRev
    \/ ComplementIter
    \/ Drop

Spec == Init /\ [][Next]_vars

\* ------------------------------------------- the lazy operations on two sets
\* a.union(b) drained with next()
Union == Idle /\ Query("union", FALSE, 0, Collect(UnionNew(a, b)))

\* a.intersection(b) drained with next()
Intersection == Idle /\ Query("intersection", FALSE, 0, Collect(IntersectionNew(a, b)))

\* a.symmetric_difference(b) drained with next()
SymmetricDifference ==
    Idle /\ Query("symmetric_difference", FALSE, 0, Collect(SymmetricDifferenceNew(a, b)))

\* a.difference(b) drained with next()
Difference == Idle /\ Query("difference", FALSE, 0, Collect(DifferenceNew(a, b)))

\* a.is_disjoint(b)
IsDisjoint == Idle /\ Query("is_disjoint", is_disjoint(a, b), 0, <<>>)

\* a.is_subset(b)
IsSubset == Idle /\ Query("is_subset", is_subset(a, b), 0, <<>>)

\* a.is_superset(b)
IsSuperset == Idle /\ Query("is_superset", is_superset(a, b), 0, <<>>)

\* two operands, each any set of Newlines
InitPairs ==
    /\ a \in AllSets
    /\ b \in AllSets
    /\ op = "idle"
    /\ arg = None
    /\ ret = FALSE
    /\ n = 0
    /\ out = <<>>
    /\ panicked = FALSE
    /\ arr = <<>>
    /\ it = NoIter
    /\ back = <<>>
    /\ NoLow

NextPairs ==
    \/ Union
    \/ Intersection
    \/ SymmetricDifference
    \/ Difference
    \/ IsDisjoint
    \/ IsSubset
    \/ IsSuperset

SpecPairs == InitPairs /\ [][NextPairs]_vars

\* ------------------------------------- the assigning operators on two sets
\* a |= b
BitOrAssignPair == Idle /\ Assign("bitor_assign", bitor(a, b))

\* a &= b
BitAndAssignPair == Idle /\ Assign("bitand_assign", bitand(a, b))

\* a ^= b
BitXorAssignPair == Idle /\ Assign("bitxor_assign", bitxor(a, b))

\* a -= b
SubAssignPair == Idle /\ Assign("sub_assign", sub(a, b))

NextOps ==
    \/ BitOrAssignPair
    \/ BitAndAssignPair
    \/ BitXorAssignPair
    \/ SubAssignPair
    \/ Not

SpecOps == InitPairs /\ [][NextOps]_vars

\* --------------------------------- the operators with a Newline on the left
\* an operator with the Newline nl on the left returns r.set, which takes the
\* place of the right operand a
Operated(name, nl, r) ==
    /\ a' = r.set
    /\ panicked' = r.panic
    /\ op' = name
    /\ arg' = nl
    /\ ret' = FALSE
    /\ n' = 0
    /\ out' = <<>>
    /\ b' = b
    /\ NoArrNoIter

\* a = nl | a
NlBitOrSet == Idle /\ \E nl \in Newlines : Operated("nl_bitor", nl, NlBitOr(nl, a))

\* a = nl & a
NlBitAndSet == Idle /\ \E nl \in Newlines : Operated("nl_bitand", nl, NlBitAnd(nl, a))

\* a = nl ^ a
NlBitXorSet == Idle /\ \E nl \in Newlines : Operated("nl_bitxor", nl, NlBitXor(nl, a))

\* a = nl - a
NlSubSet == Idle /\ \E nl \in Newlines : Operated("nl_sub", nl, NlSub(nl, a))

\* a = !nl
NlNotSet == Idle /\ \E nl \in Newlines : Operated("nl_not", nl, NlNot(nl))

\* one operand, any set of Newlines
InitSets ==
    /\ a \in AllSets
    /\ b = NewlineSetNew
    /\ op = "idle"
    /\ arg = None
    /\ ret = FALSE
    /\ n = 0
    /\ out = <<>>
    /\ panicked = FALSE
    /\ arr = <<>>
    /\ it = NoIter
    /\ back = <<>>
    /\ NoLow

NextNl ==
    \/ NlBitOrSet
    \/ NlBitAndSet
    \/ NlBitXorSet
    \/ NlSubSet
    \/ NlNotSet

SpecNl == InitSets /\ [][NextNl]_vars

\* ------------------------------------------------------- the constructors
\* the arrays the constructors are compared on: every array of up to MaxLen
\* Newlines, and for every set of Newlines its members descending and then
\* ascending, up to 16 items with every member repeated
Builds ==
    (UNION {[1 .. k -> Newlines] : k \in 0 .. MaxLen})
        \cup {Reverse(Asc(S)) \o Asc(S) : S \in SUBSET Newlines}

\* a = NewlineSet::from(items)
FromArrayCall == Idle /\ \E items \in Builds : Built("from_array", items, FromArray(items))

\* a = NewlineSet::from_iter(items), also items.into_iter().collect()
FromIterCall == Idle /\ \E items \in Builds : Built("from_iter", items, from_iter(items))

\* a.extend(items) on the empty set: the items inserted one at a time
ExtendCall ==
    /\ Idle
    /\ a = NewlineSetNew
    /\ \E items \in Builds : Built("extend", items, extend(a, items))

\* an empty set and no call made
InitBuild ==
    /\ a = NewlineSetNew
    /\ b = NewlineSetNew
    /\ op = "idle"
    /\ arg = None
    /\ ret = FALSE
    /\ n = 0
    /\ out = <<>>
    /\ panicked = FALSE
    /\ arr = <<>>
    /\ it = NoIter
    /\ back = <<>>
    /\ NoLow

NextBuild ==
    \/ FromArrayCall
    \/ FromIterCall
    \/ ExtendCall

SpecBuild == InitBuild /\ [][NextBuild]_vars

\* ------------------------------------------------- stepping through iter()
\* the caller holds an iterator
Stepping == op \in {"into_iter", "next", "next_back"}

\* a call on the held iterator returned r.val and left the iterator r.it
Stepped(name, r, front, rear) ==
    /\ op' = name
    /\ it' = r.it
    /\ arg' = r.val
    /\ out' = front
    /\ back' = rear
    /\ UNCHANGED <<a, b, ret, n, panicked, arr>>
    /\ UNCHANGED low

\* it.next(): the item, if any, joins the ones yielded at the front
SteppedNext(r) ==
    Stepped("next", r, IF r.val = None THEN out ELSE Append(out, r.val), back)

\* it.next_back(): the item, if any, joins the ones yielded at the back
SteppedNextBack(r) ==
    Stepped("next_back", r, out, IF r.val = None THEN back ELSE Append(back, r.val))

\* it.next()
StepNext == Stepping /\ SteppedNext(Char2NewlineNext(it))

\* it.next_back()
StepNextBack == Stepping /\ SteppedNextBack(Char2NewlineNextBack(it))

\* it = a.iter() for any set a
InitIter ==
    /\ a \in AllSets
    /\ b = NewlineSetNew
    /\ op = "into_iter"
    /\ arg = None
    /\ ret = FALSE
    /\ n = 0
    /\ out = <<>>
    /\ panicked = FALSE
    /\ arr = <<>>
    /\ it = IntoIterNew(a)
    /\ back = <<>>
    /\ NoLow

NextIter ==
    \/ StepNext
    \/ StepNextBack

SpecIter == InitIter /\ [][NextIter]_vars

\* --------------------------------------- stepping through the lazy iterators
\* the caller holds the iterator of a lazy set operation
Lazy ==
    op \in {"new_union", "new_intersection", "new_symmetric_difference",
            "new_difference", "new_complement", "lazy_next"}

\* a lazy set operation returned the iterator lazy, not yet advanced
Held(name, lazy) ==
    /\ op' = name
    /\ it' = lazy
    /\ arg' = None
    /\ out' = <<>>
    /\ back' = <<>>
    /\ UNCHANGED <<a, b, ret, n, panicked, arr>>
    /\ UNCHANGED low

\* it = a.union(b)
NewUnion == Idle /\ Held("new_union", UnionNew(a, b))

\* it = a.intersection(b)
NewIntersection == Idle /\ Held("new_intersection", IntersectionNew(a, b))

\* it = a.symmetric_difference(b)
NewSymmetricDifference ==
    Idle /\ Held("new_symmetric_difference", SymmetricDifferenceNew(a, b))

\* it = a.difference(b)
NewDifference == Idle /\ Held("new_difference", DifferenceNew(a, b))

\* it = a.complement()
NewComplement == Idle /\ Held("new_complement", ComplementNew(a))

\* it.next() returned r.val: the item, if any, joins the ones yielded
SteppedLazy(r) ==
    Stepped("lazy_next", r, IF r.val = None THEN out ELSE Append(out, r.val), back)

\* it.next() on the iterator of a lazy set operation
LazyNext == Lazy /\ SteppedLazy(Char2NewlineNext(it))

NextLazy ==
    \/ NewUnion
    \/ NewIntersection
    \/ NewSymmetricDifference
    \/ NewDifference
    \/ NewComplement
    \/ LazyNext

SpecLazy == InitPairs /\ [][NextLazy]_vars

\* ------------------------------------------------------- searching a string
\* the chars of the strings searched: 'a', '\n', '\r' and the two-byte NEL
TextChars == {97, LF, CR, NEL}

\* the strings handed to search(), rsearch() and try_from()
Texts == UNION {[1 .. k -> TextChars] : k \in 0 .. MaxStr}

\* a call returned the Option or Result r, or ended in unreachable!()
Answered(name, r) ==
    /\ op' = name
    /\ res' = r
    /\ panicked' = (r.tag = "Panic")
    /\ UNCHANGED <<a, b, arg, ret, n, out, arr, it, back>>
    /\ UNCHANGED <<text, ch, s_end, cs, live, d, src>>

\* a.search(text)
Search == Idle /\ Answered("search", search(a, text))

\* a.rsearch(text)
RSearch == Idle /\ Answered("rsearch", rsearch(a, text))

\* any set of Newlines and any string, no call made
InitSearch ==
    /\ a \in AllSets
    /\ b = NewlineSetNew
    /\ op = "idle"
    /\ arg = None
    /\ ret = FALSE
    /\ n = 0
    /\ out = <<>>
    /\ panicked = FALSE
    /\ arr = <<>>
    /\ it = NoIter
    /\ back = <<>>
    /\ text \in Texts
    /\ ch = None
    /\ res = NoRes
    /\ s_end = 0
    /\ cs = CharSetDefault
    /\ live = {}
    /\ d = CharSetDiffNew(CharSetDefault, CharSetDefault)
    /\ src = NoIter

NextSearch ==
    \/ Search
    \/ RSearch

SpecSearch == InitSearch /\ [][NextSearch]_vars

\* ------------------------------------------- rsearch(), one pass at a time
\* the Newlines that occur in the strings searched
TextNewlines == {nl \in Newlines : \E c \in TextChars : Head(as_str(nl)) = c}

\* the sets of those Newlines
TextSets == {from_iter(Asc(S)).set : S \in SUBSET TextNewlines}

\* set.rsearch(s) reaches its loop with s_end = s.len(), or returns None for
\* the empty set; n counts the passes of the loop that end in continue
Entered(set, s) ==
    /\ a' = set
    /\ text' = s
    /\ op' = (IF is_empty(set) THEN "rsearch" ELSE "rsearch_loop")
    /\ s_end' = (IF is_empty(set) THEN 0 ELSE StrLen(s))
    /\ res' = NoMatch
    /\ n' = 0
    /\ UNCHANGED <<b, arg, ret, out, panicked, arr, it, back>>
    /\ UNCHANGED <<ch, cs, live, d, src>>

\* a call of rsearch() on a set of the Newlines of the strings, with any of
\* the strings
RSearchCall == Idle /\ \E set \in TextSets : \E s \in Texts : Entered(set, s)

\* the pass of the loop had the outcome r: rsearch() returns r.res, or the
\* loop goes on with the bound r.s_end
Looped(r) ==
    /\ op' = (IF r.done THEN "rsearch" ELSE "rsearch_loop")
    /\ res' = r.res
    /\ s_end' = r.s_end
    /\ n' = (IF r.done THEN n ELSE n + 1)
    /\ panicked' = (r.res.tag = "Panic")
    /\ UNCHANGED <<a, b, arg, ret, out, arr, it, back>>
    /\ UNCHANGED <<text, ch, cs, live, d, src>>

\* one pass of the loop of rsearch(): rfind() on text[..s_end], then the
\* body of the loop on the offset st it returned
RSearchStep ==
    /\ op = "rsearch_loop"
    /\ \E sl \in {SliceTo(text, s_end)} :
         \E st \in {rfind(sl, pattern(a))} :
           \E r \in {RSearchFound(a, text, s_end, st)} : Looped(r)

\* no call made
InitRSearch ==
    /\ a = NewlineSetNew
    /\ b = NewlineSetNew
    /\ op = "idle"
    /\ arg = None
    /\ ret = FALSE
    /\ n = 0
    /\ out = <<>>
    /\ panicked = FALSE
    /\ arr = <<>>
    /\ it = NoIter
    /\ back = <<>>
    /\ NoLow

NextRSearch ==
    \/ RSearchCall
    \/ RSearchStep

\* a call that has reached its loop goes on: the loop is sequential code
SpecRSearch == InitRSearch /\ [][NextRSearch]_vars /\ WF_vars(RSearchStep)

\* ------------------------------------------------------- the conversions
\* the chars handed to Newline::try_from(char): the chars of the Newlines,
\* '\0' and 'a'
Chars == {chartype(nl) : nl \in Newlines \ {CrLf}} \cup {NUL, 97}

\* arg.as_str()
AsStr == Idle /\ Answered("as_str", [tag |-> "Str", val |-> as_str(arg)])

\* arg.as_char()
AsChar == Idle /\ Answered("as_char", as_char(arg))

\* Newline::try_from(ch)
TryFromCharCall == Idle /\ Answered("try_from_char", TryFromCharResult(ch))

\* Newline::try_from(text)
TryFromStrCall == Idle /\ Answered("try_from_str", TryFromStr(text))

\* any Newline, any char and any string, no call made
InitConv ==
    /\ a = NewlineSetNew
    /\ b = NewlineSetNew
    /\ op = "idle"
    /\ arg \in Newlines
    /\ ret = FALSE
    /\ n = 0
    /\ out = <<>>
    /\ panicked = FALSE
    /\ arr = <<>>
    /\ it = NoIter
    /\ back = <<>>
    /\ text \in Texts
    /\ ch \in Chars
    /\ res = NoRes
    /\ s_end = 0
    /\ cs = CharSetDefault
    /\ live = {}
    /\ d = CharSetDiffNew(CharSetDefault, CharSetDefault)
    /\ src = NoIter

NextConv ==
    \/ AsStr
    \/ AsChar
    \/ TryFromCharCall
    \/ TryFromStrCall

SpecConv == InitConv /\ [][NextConv]_vars

\* --------------------------------------------------------- the bare CharSet
\* the chars handed to insert() and remove(): one more than the CharSet holds
CharSetChars == {LF, VT, FF, CR, 97, NEL, LS, PS}

\* a call on cs with the char c left the set r.cs and returned r.ret, or
\* panicked; members are the chars then inserted and not removed
Called(name, c, r, panic, members) ==
    /\ op' = name
    /\ ch' = c
    /\ cs' = r.cs
    /\ ret' = r.ret
    /\ panicked' = panic
    /\ live' = members
    /\ UNCHANGED <<a, b, arg, n, out, arr, it, back>>
    /\ UNCHANGED <<text, res, s_end, d, src>>

\* as_slice() panics: the range ..len is out of the bounds of data
SlicePanics(name, c) == Called(name, c, [cs |-> cs, ret |-> FALSE], TRUE, live)

\* cs.insert(c)
CsInsert ==
    /\ ~panicked
    /\ \E c \in CharSetChars :
          IF cs.len > Len(cs.data)
          THEN SlicePanics("cs_insert", c)
          ELSE Called("cs_insert", c, CharSetInsert(cs, c),
                      CharSetInsert(cs, c).panic, live \cup {c})

\* cs.remove(c)
CsRemove ==
    /\ ~panicked
    /\ \E c \in CharSetChars :
          IF cs.len > Len(cs.data)
          THEN SlicePanics("cs_remove", c)
          ELSE Called("cs_remove", c, CharSetRemove(cs, c), FALSE, live \ {c})

\* CharSet::default(), no call made
InitCharSet ==
    /\ a = NewlineSetNew
    /\ b = NewlineSetNew
    /\ op = "default"
    /\ arg = None
    /\ ret = FALSE
    /\ n = 0
    /\ out = <<>>
    /\ panicked = FALSE
    /\ arr = <<>>
    /\ it = NoIter
    /\ back = <<>>
    /\ NoLow

NextCharSet ==
    \/ CsInsert
    \/ CsRemove

SpecCharSet == InitCharSet /\ [][NextCharSet]_vars

\* ------------------------------------------------------------ CharSet::diff
\* the patterns of the sets of Newlines: every sorted CharSet of the chars
\* that start a Newline
Patterns == {x.pattern : x \in AllSets}

\* d.next() returned the event r.val, which joins the ones yielded
DiffStepped(r) ==
    /\ op' = "diff_next"
    /\ d' = r.d
    /\ res' = r.val
    /\ out' = (IF r.val.tag = "None" THEN out ELSE Append(out, r.val))
    /\ UNCHANGED <<a, b, arg, ret, n, panicked, arr, it, back>>
    /\ UNCHANGED <<text, ch, s_end, cs, live, src>>

\* d.next(), until it has returned None
DiffNext ==
    /\ op \in {"diff", "diff_next"}
    /\ ~(op = "diff_next" /\ res.tag = "None")
    /\ DiffStepped(CharSetDiffNext(d))

\* d = left.diff(right) for any two sorted CharSets
InitDiff ==
    /\ a = NewlineSetNew
    /\ b = NewlineSetNew
    /\ op = "diff"
    /\ arg = None
    /\ ret = FALSE
    /\ n = 0
    /\ out = <<>>
    /\ panicked = FALSE
    /\ arr = <<>>
    /\ it = NoIter
    /\ back = <<>>
    /\ text = <<>>
    /\ ch = None
    /\ res = NoRes
    /\ s_end = 0
    /\ cs = CharSetDefault
    /\ live = {}
    /\ d \in {CharSetDiffNew(x, y) : x \in Patterns, y \in Patterns}
    /\ src = NoIter

NextDiff == DiffNext

SpecDiff == InitDiff /\ [][NextDiff]_vars

\* ------------------------------------------- draining a bare Char2Newline
\* it.next() only, until it has returned None
DrainNext ==
    /\ op \in {"into_iter", "next"}
    /\ ~(op = "next" /\ arg = None)
    /\ StepNext

\* it.next_back() only, until it has returned None
DrainNextBack ==
    /\ op \in {"into_iter", "next_back"}
    /\ ~(op = "next_back" /\ arg = None)
    /\ StepNextBack

\* it = Char2Newline::new(chars, cr, crlf) for any sorted CharSet of the chars
\* that start a Newline and any two flags
InitDrain ==
    /\ a = NewlineSetNew
    /\ b = NewlineSetNew
    /\ op = "into_iter"
    /\ arg = None
    /\ ret = FALSE
    /\ n = 0
    /\ out = <<>>
    /\ panicked = FALSE
    /\ arr = <<>>
    /\ src \in {Char2NewlineNew("CharSetIter", CharSetIterNew(x), cr, crlf) :
                  x \in Patterns, cr \in BOOLEAN, crlf \in BOOLEAN}
    /\ it = src
    /\ back = <<>>
    /\ text = <<>>
    /\ ch = None
    /\ res = NoRes
    /\ s_end = 0
    /\ cs = CharSetDefault
    /\ live = {}
    /\ d = CharSetDiffNew(CharSetDefault, CharSetDefault)

NextDrain ==
    \/ DrainNext
    \/ DrainNextBack

SpecDrain == InitDrain /\ [][NextDrain]_vars

\* ------------------------------------------------------------- properties
\* the characters stored in a pattern
PatternChars(s) == {s.pattern.data[k] : k \in 1 .. s.pattern.len}

\* the single-character Newlines other than CarriageReturn
PlainNewlines == Newlines \ {CarriageReturn, CrLf}

\* C1: in every value reachable from new(), from the named constants and from
\* from()/from_iter() by insert, remove, clear, extend and the operators,
\* '\r' is in pattern iff cr or crlf is set, and every other character of
\* pattern is stored once and is the character of exactly one single-character
\* Newline other than CarriageReturn.
C1_RepresentationInvariant ==
    /\ a.pattern.len <= Capacity
    /\ (CR \in PatternChars(a)) <=> (a.cr \/ a.crlf)
    /\ \A k \in 1 .. a.pattern.len :
          /\ \A j \in 1 .. a.pattern.len : a.pattern.data[j] = a.pattern.data[k] => j = k
          /\ a.pattern.data[k] # CR =>
                Cardinality({nl \in PlainNewlines : chartype(nl) = a.pattern.data[k]}) = 1

\* a set difference left CrLf alone in a pattern that still holds '\r'
C1_Witness ==
    /\ op = "sub_assign"
    /\ ~a.cr
    /\ a.crlf
    /\ CR \in PatternChars(a)
    /\ a.pattern.len > 1

\* C2: insert(nl) returns true exactly when the set did not contain nl and
\* leaves the old members plus nl; remove(nl) returns true exactly when the set
\* contained nl and leaves the old members minus nl; so an insert or remove of
\* CarriageReturn never changes contains(CrLf), and vice versa.
C2_InsertRemove ==
    [][/\ op' = "insert" =>
            /\ ret' = (arg' \notin Members(a))
            /\ Members(a') = Members(a) \cup {arg'}
       /\ op' = "remove" =>
            /\ ret' = (arg' \in Members(a))
            /\ Members(a') = Members(a) \ {arg'}]_vars

\* CarriageReturn was newly inserted into a set that holds CrLf
C2_Witness ==
    /\ op = "insert"
    /\ arg = CarriageReturn
    /\ ret
    /\ contains(a, CrLf)
    /\ contains(a, CarriageReturn)

\* C3: len() is the number of Newline variants the set contains, and
\* is_empty() is true iff that number is 0.
C3_LenCountsMembers ==
    /\ op = "len" => n = Cardinality(Members(a))
    /\ op = "is_empty" => ret = (Cardinality(Members(a)) = 0)

\* len() returned 2 for the set of CarriageReturn and CrLf, one stored '\r'
C3_Witness ==
    /\ op = "len"
    /\ n = 2
    /\ Members(a) = {CarriageReturn, CrLf}
    /\ a.pattern.len = 1

\* the value from_iter() builds from the members in ascending order
Canonical(S) == from_iter(Asc(S)).set

\* C4: a reachable value is determined by its members: it equals, field by
\* field, the value built from the same members, so two reachable values are
\* equal iff they contain the same Newlines.
C4_EqualityCanonical == a = Canonical(Members(a))

\* a remove emptied a slot in front of a stored character and the value
\* equals NewlineSet::from([nl2])
C4_Witness ==
    /\ op = "remove"
    /\ ret
    /\ \E nl2 \in Newlines :
          /\ arg < nl2
          /\ Members(a) = {nl2}
          /\ a = FromArray(<<nl2>>).set

\* C5: iter() drained with next() yields the members of the set, each once,
\* in ascending Newline order, and drained with next_back() yields the same
\* sequence back to front.
C5_IterOrder ==
    /\ op = "iter" => out = Asc(Members(a))
    /\ op = "iter_rev" => out = Reverse(Asc(Members(a)))

\* next_back() yielded CrLf and then the CarriageReturn it had queued, around
\* other members
C5_Witness ==
    /\ op = "iter_rev"
    /\ out = <<NextLine, CrLf, CarriageReturn, LineFeed>>

\* the members of both operands
MA == Members(a)
MB == Members(b)

\* the Newlines a sequence holds
Range(q) == {q[k] : k \in 1 .. Len(q)}

\* C6: a.union(b) yields, ascending and each once, exactly the Newlines
\* contained in a or in b, and b.union(a) yields the same.
C6_Union ==
    op = "union" =>
        /\ out = Asc(MA \cup MB)
        /\ out = Collect(UnionNew(b, a))

\* CarriageReturn came from one operand and CrLf from the other, both
\* patterns holding '\r'
C6_Witness ==
    /\ op = "union"
    /\ MA = {CarriageReturn, NextLine}
    /\ MB = {LineFeed, CrLf}
    /\ out = <<LineFeed, CarriageReturn, CrLf, NextLine>>

\* C7: a.intersection(b) yields, ascending and each once, exactly the
\* Newlines contained in both a and b; b.intersection(a) yields the same,
\* a & b == b & a, and a & a == a.
C7_Intersection ==
    op = "intersection" =>
        /\ out = Asc(MA \cap MB)
        /\ out = Collect(IntersectionNew(b, a))
        /\ bitand(a, b) = bitand(b, a)
        /\ bitand(a, a) = [set |-> a, panic |-> FALSE]

\* both patterns hold '\r', one for CarriageReturn and one for CrLf, and the
\* intersection is only the other shared member
C7_Witness ==
    /\ op = "intersection"
    /\ MA = {LineFeed, CarriageReturn}
    /\ MB = {LineFeed, CrLf}
    /\ out = <<LineFeed>>

\* C8: a.difference(b) yields, ascending and each once, exactly the Newlines
\* of a that are not in b; the set collected from it is disjoint from b, and
\* its union with a & b is a.
C8_Difference ==
    op = "difference" =>
        /\ out = Asc(MA \ MB)
        /\ sub(a, b) = into_newline_set(out)
        /\ ~sub(a, b).panic
        /\ is_disjoint(sub(a, b).set, b)
        /\ bitor(sub(a, b).set, bitand(a, b).set) = [set |-> a, panic |-> FALSE]

\* CrLf was taken away from a set that keeps CarriageReturn
C8_Witness ==
    /\ op = "difference"
    /\ MA = {LineFeed, CarriageReturn, CrLf}
    /\ MB = {LineFeed, CrLf, NextLine}
    /\ out = <<CarriageReturn>>

\* C9: a.symmetric_difference(b) yields, ascending and each once, exactly the
\* Newlines contained in exactly one of a and b, and b.symmetric_difference(a)
\* yields the same; when both patterns hold '\r', CarriageReturn is yielded
\* iff exactly one operand contains CarriageReturn, and CrLf iff exactly one
\* contains CrLf.
C9_SymmetricDifference ==
    op = "symmetric_difference" =>
        /\ out = Asc((MA \ MB) \cup (MB \ MA))
        /\ out = Collect(SymmetricDifferenceNew(b, a))
        /\ (CR \in PatternChars(a) /\ CR \in PatternChars(b)) =>
              /\ (CarriageReturn \in Range(out)) <=>
                    (contains(a, CarriageReturn) # contains(b, CarriageReturn))
              /\ (CrLf \in Range(out)) <=> (contains(a, CrLf) # contains(b, CrLf))

\* {CarriageReturn, CrLf} ^ {CrLf} is {CarriageReturn}
C9_Witness ==
    /\ op = "symmetric_difference"
    /\ MA = {CarriageReturn, CrLf}
    /\ MB = {CrLf}
    /\ out = <<CarriageReturn>>

\* C10: a.complement() yields, ascending and each once, exactly the Newlines
\* not in a; !!a == a, a.is_disjoint(!a), the complement of the empty set is
\* ALL and the complement of ALL is empty.
C10_Complement ==
    /\ op = "complement" => out = Asc(Newlines \ MA)
    /\ ~not(a).panic
    /\ Members(not(a).set) = Newlines \ MA
    /\ not(not(a).set) = [set |-> a, panic |-> FALSE]
    /\ is_disjoint(a, not(a).set)
    /\ MA = {} => not(a).set = ALL
    /\ a = ALL => not(a).set = NewlineSetNew /\ is_empty(not(a).set)

\* the complement of a set with CrLf but not CarriageReturn holds
\* CarriageReturn but not CrLf
C10_Witness ==
    /\ op = "complement"
    /\ MA = {LineFeed, CrLf}
    /\ out = <<VerticalTab, FormFeed, CarriageReturn, NextLine, LineSeparator,
               ParagraphSeparator>>

\* C11: a.is_disjoint(b) is true iff no Newline is contained in both a and
\* b, and b.is_disjoint(a) returns the same.
C11_IsDisjoint ==
    op = "is_disjoint" =>
        /\ ret = (MA \cap MB = {})
        /\ ret = is_disjoint(b, a)

\* {CarriageReturn} and {CrLf} share the character '\r' and are disjoint
C11_Witness ==
    /\ op = "is_disjoint"
    /\ MA = {CarriageReturn}
    /\ MB = {CrLf}
    /\ CR \in PatternChars(a) \cap PatternChars(b)
    /\ ret

\* C12: a.is_subset(b) is true iff every Newline contained in a is contained
\* in b, and a.is_superset(b) is b.is_subset(a).
C12_SubsetSuperset ==
    /\ op = "is_subset" => ret = (MA \subseteq MB)
    /\ op = "is_superset" =>
          /\ ret = (MB \subseteq MA)
          /\ ret = is_subset(b, a)

\* {CarriageReturn, CrLf} is not a subset of {CrLf}
C12_Witness ==
    /\ op = "is_subset"
    /\ MA = {CarriageReturn, CrLf}
    /\ MB = {CrLf}
    /\ ~ret

\* the operator result r is the set of the items the lazy iterator yields,
\* equal to from_iter() of them, and the assigning form left it in lhs
OperatorAgrees(lhs, r, items) ==
    /\ r = [set |-> lhs, panic |-> FALSE]
    /\ Members(r.set) = Range(items)
    /\ r = from_iter(items)

\* C13: a | b, a & b, a ^ b, a - b and !a are the sets of what union,
\* intersection, symmetric_difference, difference and complement yield, each
\* equal to from_iter() of the iterator's output, and |=, &=, ^=, -= leave the
\* left operand equal to the result of the non-assigning operator.
C13_OperatorsFromIterators ==
    [][/\ op' = "bitor_assign" =>
            OperatorAgrees(a', bitor(a, b), Collect(UnionNew(a, b)))
       /\ op' = "bitand_assign" =>
            OperatorAgrees(a', bitand(a, b), Collect(IntersectionNew(a, b)))
       /\ op' = "bitxor_assign" =>
            OperatorAgrees(a', bitxor(a, b), Collect(SymmetricDifferenceNew(a, b)))
       /\ op' = "sub_assign" =>
            OperatorAgrees(a', sub(a, b), Collect(DifferenceNew(a, b)))
       /\ op' = "not" =>
            OperatorAgrees(a', not(a), Collect(ComplementNew(a)))]_vars

\* a |= b put CarriageReturn and CrLf, one from each operand, on one stored
\* '\r'
C13_Witness ==
    /\ op = "bitor_assign"
    /\ MB = {LineFeed, CrLf}
    /\ MA = {LineFeed, CarriageReturn, CrLf, NextLine}
    /\ a.pattern.len = 3

\* C14: the operators with a Newline nl on the left return what the set
\* operators return for the singleton {nl}: nl | s == {nl} | s,
\* nl & s == {nl} & s, nl ^ s == {nl} ^ s, nl - s == {nl} - s, and !nl == !{nl},
\* the set of every Newline except nl.
C14_NewlineOperators ==
    [][/\ op' = "nl_bitor" =>
            [set |-> a', panic |-> panicked'] = bitor(FromNewline(arg'), a)
       /\ op' = "nl_bitand" =>
            [set |-> a', panic |-> panicked'] = bitand(FromNewline(arg'), a)
       /\ op' = "nl_bitxor" =>
            [set |-> a', panic |-> panicked'] = bitxor(FromNewline(arg'), a)
       /\ op' = "nl_sub" =>
            [set |-> a', panic |-> panicked'] = sub(FromNewline(arg'), a)
       /\ op' = "nl_not" =>
            /\ [set |-> a', panic |-> panicked'] = not(FromNewline(arg'))
            /\ Members(a') = Newlines \ {arg'}]_vars

\* CrLf ^ {LineFeed, CarriageReturn} inserted CrLf on the '\r' stored for
\* CarriageReturn
C14_Witness ==
    /\ op = "nl_bitxor"
    /\ arg = CrLf
    /\ MA = {LineFeed, CarriageReturn, CrLf}
    /\ a.pattern.len = 2
    /\ ~panicked

\* C15: removing nl from the set made by inserting nl into an empty set
\* returns true and leaves a value equal to the empty set; insert(nl) on a
\* set that contains nl returns false and leaves the set as it was.
C15_InsertRemoveRoundTrip ==
    [][/\ (op' = "insert" /\ a = NewlineSetNew) =>
            /\ ret'
            /\ remove(a', arg') = [set |-> EMPTY, ret |-> TRUE]
       /\ (op' = "remove" /\ a = insert(NewlineSetNew, arg').set) =>
            /\ ret'
            /\ a' = NewlineSetNew
            /\ a' = EMPTY
       /\ (op' = "insert" /\ contains(a, arg')) =>
            /\ ~ret'
            /\ a' = a]_vars

\* the remove of the only member, CrLf, left the empty set
C15_Witness ==
    /\ op = "remove"
    /\ arg = CrLf
    /\ ret
    /\ a = EMPTY

\* C16: NewlineSet::from(array), from_iter() of the same values and the
\* inserts of them one at a time into an empty set give the same value for
\* an array in any order and with repetitions, and its members are the
\* distinct values of the array.
C16_Construction ==
    op \in {"from_array", "from_iter", "extend"} =>
        /\ ~panicked
        /\ Members(a) = Range(arr)
        /\ a = Canonical(Range(arr))
        /\ FromArray(arr) = [set |-> a, panic |-> FALSE]
        /\ from_iter(arr) = [set |-> a, panic |-> FALSE]
        /\ extend(NewlineSetNew, Reverse(arr)) = [set |-> a, panic |-> FALSE]
        /\ FromArray(Reverse(arr)) = [set |-> a, panic |-> FALSE]

\* from() of an unsorted array that repeats CrLf and holds CarriageReturn
\* stored one '\r' after '\n'
C16_Witness ==
    /\ op = "from_array"
    /\ arr = <<CrLf, LineFeed, CrLf, CarriageReturn>>
    /\ a.pattern.len = 2
    /\ a.cr
    /\ a.crlf

\* the members of a in ascending order
AscA == Asc(MA)

\* C17: under every interleaving of next() and next_back() on a.iter(), the
\* values from next() are the first members of a in ascending order, the
\* values from next_back() the last members in descending order, the two
\* never overlap, and a call returns None only when every member has been
\* returned, which it then does on every later call.
C17_DoubleEnded ==
    Stepping =>
        /\ Len(out) + Len(back) <= Len(AscA)
        /\ out = SubSeq(AscA, 1, Len(out))
        /\ Reverse(back) = SubSeq(AscA, Len(AscA) - Len(back) + 1, Len(AscA))
        /\ (op = "next" /\ arg # None) => (out # <<>> /\ arg = out[Len(out)])
        /\ (op = "next_back" /\ arg # None) => (back # <<>> /\ arg = back[Len(back)])
        /\ (op \in {"next", "next_back"} /\ arg = None) =>
              Len(out) + Len(back) = Len(AscA)
        /\ Len(out) + Len(back) = Len(AscA) =>
              /\ Char2NewlineNext(it).val = None
              /\ Char2NewlineNextBack(it).val = None

\* next_back() split the shared '\r' into CrLf and CarriageReturn, next()
\* took the rest of the set and then returned None
C17_Witness ==
    /\ op = "next"
    /\ arg = None
    /\ out = <<LineFeed>>
    /\ back = <<NextLine, CrLf, CarriageReturn>>

\* C18: on a.iter(), before every call of next() or next_back(), size_hint()
\* is (k, Some(k)) for k the number of members of a not yet returned.
C18_SizeHintExact ==
    Stepping =>
        /\ Char2NewlineSizeHintLower(it) = Len(AscA) - Len(out) - Len(back)
        /\ Char2NewlineSizeHintUpper(it) = Len(AscA) - Len(out) - Len(back)

\* next() has returned CarriageReturn and queued CrLf: one '\r' was read
\* and two members are left
C18_Witness ==
    /\ op = "next"
    /\ arg = CarriageReturn
    /\ it.queued = CrLf
    /\ MA = {LineFeed, CarriageReturn, CrLf, NextLine}
    /\ Char2NewlineSizeHintLower(it) = 2
    /\ back = <<>>

\* C19: the iterators of union, intersection, symmetric_difference,
\* difference and complement report, at every point of the iteration, the
\* size hint (k, Some(k)) for k the number of Newlines they will still yield.
C19_LazySizeHintExact ==
    Lazy =>
        /\ Char2NewlineSizeHintLower(it) = Len(Collect(it))
        /\ Char2NewlineSizeHintUpper(it) = Len(Collect(it))

\* C20: no sequence of new, the named constants, from, from_iter, extend,
\* insert, remove, clear, the operators and the iterators reaches the panic
\* of CharSet::insert on a full set or an append past the last slot, and
\* pattern never holds more than 7 characters in its 7 slots.
C20_NoCapacityPanic ==
    /\ ~panicked
    /\ a.pattern.len <= 7
    /\ Len(a.pattern.data) = 7
    /\ \A nl \in Newlines : ~insert(a, nl).panic /\ insert(a, nl).set.pattern.len <= 7

\* an insert put the seventh character into the last slot
C20_Witness ==
    /\ op = "insert"
    /\ ret
    /\ a.pattern.len = 7
    /\ a.pattern.data[7] # NUL
    /\ MA = Newlines

\* ------------------------------------------------ searching: C21, C22, C23
\* the byte offsets of text at which the string of the Newline nl occurs
OccursAt(nl) ==
    {ByteOffset(text, k) : k \in {j \in 1 .. Len(text) :
                                    starts_with(SubSeq(text, j, Len(text)), as_str(nl))}}

\* the occurrences in text of the members of a: <<byte offset, Newline>>
Occurs == {x \in (0 .. StrLen(text)) \X MA : x[1] \in OccursAt(x[2])}

\* the Match held is a member of a at its place in text, between the text
\* before it and the text after it
MatchSound ==
    /\ contains(a, res.newline)
    /\ res.start \in OccursAt(res.newline)
    /\ res.end = res.start + StrLen(as_str(res.newline))
    /\ res.before \o as_str(res.newline) \o res.after = text
    /\ StrLen(res.before) = res.start

\* C21: whenever a.search(text) returns Some(m), m.newline is a member of a,
\* text[m.start..m.end] is m.newline.as_str(), m.before is text[..m.start]
\* and m.after is text[m.end..], also for a set with CrLf and without
\* CarriageReturn on a text whose '\r' is not followed by '\n'
C21_SearchMatchSound ==
    (op = "search" /\ res.tag # "None") => (res.tag = "Some" /\ MatchSound)

\* C22: a.search(text) returns None exactly when no member of a occurs in
\* text, and otherwise an occurrence of a member with the smallest start
\* offset, which is CrLf when CrLf is a member and text has "\r\n" there
C22_SearchFirst ==
    op = "search" =>
        /\ res.tag \in {"None", "Some"}
        /\ res.tag = "None" <=> Occurs = {}
        /\ res.tag = "Some" =>
              /\ <<res.start, res.newline>> \in Occurs
              /\ \A x \in Occurs : res.start <= x[1]
              /\ <<res.start, CrLf>> \in Occurs => res.newline = CrLf

\* C23: a.rsearch(text) returns None exactly when no member of a occurs in
\* text; the Match of a Some is a member of a at its place in text, between
\* the text before and after it; a '\r' is not reported as CarriageReturn
\* when CarriageReturn is no member, and where CrLf is a member a "\r\n" is
\* reported as CrLf, neither as its '\r' nor as its '\n'
C23_RSearch ==
    op = "rsearch" =>
        /\ res.tag \in {"None", "Some"}
        /\ res.tag = "None" <=> Occurs = {}
        /\ res.tag = "Some" =>
              /\ MatchSound
              /\ res.newline = CarriageReturn => a.cr
              /\ res.newline = CarriageReturn => <<res.start, CrLf>> \notin Occurs
              /\ res.newline = LineFeed => <<res.start - 1, CrLf>> \notin Occurs

\* rsearch() passed over a '\r' that is no CarriageReturn of the set and
\* found a CrLf before it
C23_Witness ==
    /\ op = "rsearch"
    /\ ~a.cr
    /\ res.tag = "Some"
    /\ res.newline = CrLf
    /\ CR \in Range(res.after)

\* ------------------------------------------------------- conversions: C24
\* the strings of the 8 Newlines
Representations == {as_str(nl) : nl \in Newlines}

\* C24: try_from(n.as_str()) is Ok(n) for every Newline n; n.as_char() is
\* Some(c) with try_from(c) = Ok(n) for every n but CrLf, for which it is
\* None; no char converts to CrLf; a char or a string that is none of the 8
\* representations converts to an error, that of a char carrying the char
C24_Conversions ==
    /\ op = "as_str" => TryFromStr(res.val) = [tag |-> "Ok", val |-> arg]
    /\ op = "as_char" =>
          IF arg = CrLf THEN res.tag = "None"
          ELSE res.tag = "Some"
               /\ TryFromCharResult(res.val) = [tag |-> "Ok", val |-> arg]
    /\ op = "try_from_char" =>
          /\ res # [tag |-> "Ok", val |-> CrLf]
          /\ <<ch>> \notin Representations => res = [tag |-> "Err", val |-> ch]
          /\ <<ch>> \in Representations => res.tag = "Ok" /\ as_str(res.val) = <<ch>>
    /\ op = "try_from_str" =>
          /\ text \notin Representations => res.tag = "Err"
          /\ text \in Representations => res.tag = "Ok" /\ as_str(res.val) = text

\* the two-char string "\r\n" was converted to CrLf
C24_Witness ==
    /\ op = "try_from_str"
    /\ text = <<CR, LF>>
    /\ res = [tag |-> "Ok", val |-> CrLf]

\* ------------------------------------------------------- CharSet: C25, C26
\* C25: as long as the calls of insert() and remove() never ask the CharSet to
\* hold more than 7 chars, no call panics, len <= 7, data[0..len] is strictly
\* ascending, data[len..7] is '\0', insert() returns true exactly for a char
\* that was absent, remove() exactly for one that was present, and
\* contains() is true exactly for the chars inserted and not removed since
C25_CharSetInvariant ==
    [][Cardinality(live') <= Capacity =>
          /\ ~panicked'
          /\ cs'.len <= Capacity
          /\ \A k \in 1 .. cs'.len - 1 : cs'.data[k] < cs'.data[k + 1]
          /\ \A k \in cs'.len + 1 .. Capacity : cs'.data[k] = NUL
          /\ op' = "cs_insert" => (ret' <=> ch' \notin live)
          /\ op' = "cs_remove" => (ret' <=> ch' \in live)
          /\ \A c \in CharSetChars : CharSetContains(cs', c) <=> c \in live']_vars

\* an insert() filled the CharSet, with the new char not the largest
C25_Witness ==
    /\ op = "cs_insert"
    /\ ret
    /\ ~panicked
    /\ cs.len = Capacity
    /\ Cardinality(live) = Capacity
    /\ ch # cs.data[Capacity]

\* C26: insert(ch) on a CharSet that holds 7 chars, ch none of them, panics
\* wherever ch sorts among them: it leaves the set as it is and does not
\* return; no CharSet ends up with len = 8 or with a stored char dropped
C26_InsertFullPanics ==
    [][(op' = "cs_insert" /\ cs.len = Capacity /\ ~CharSetContains(cs, ch'))
          => (panicked' /\ cs' = cs /\ ~ret')]_vars

\* -------------------------------------------------------- CharSetDiff: C27
\* the chars of the left operand of d
DiffLeft == Range(as_slice(d.left_iter.charset))

\* the chars of the right operand of d
DiffRight == Range(as_slice(d.right_iter.charset))

\* the event of the char c
Event(c) ==
    [tag |-> IF c \in DiffLeft /\ c \in DiffRight THEN "Both"
             ELSE IF c \in DiffLeft THEN "Left" ELSE "Right",
     ch |-> c]

\* the events of the chars of both operands, in ascending order of the chars
Merged ==
    [k \in 1 .. Cardinality(DiffLeft \cup DiffRight) |->
        Event(Asc(DiffLeft \cup DiffRight)[k])]

\* C27: the events left.diff(right) yields are those of the chars of either
\* set in strictly ascending order, each once, Left for a char only in left,
\* Right for one only in right and Both for one in both; next() returns None
\* when all of them have been yielded and not before
C27_Diff ==
    op \in {"diff", "diff_next"} =>
        /\ Len(out) <= Len(Merged)
        /\ out = SubSeq(Merged, 1, Len(out))
        /\ (op = "diff_next" /\ res.tag = "None") => out = Merged
        /\ (op = "diff_next" /\ res.tag # "None") => res = out[Len(out)]

\* a diff with events of all three kinds was drained
C27_Witness ==
    /\ op = "diff_next"
    /\ res.tag = "None"
    /\ \A t \in {"Left", "Both", "Right"} : \E k \in 1 .. Len(out) : out[k].tag = t

\* ------------------------------------------------- Char2Newline: C28, C29
\* the Newlines the char c stands for under the flags cr and crlf
Yield(c, cr, crlf) ==
    IF c = CR
    THEN (IF cr THEN <<CarriageReturn>> ELSE <<>>) \o (IF crlf THEN <<CrLf>> ELSE <<>>)
    ELSE <<CHOOSE nl \in Newlines : chartype(nl) = c>>

RECURSIVE Expand(_, _, _)
\* the Newlines the chars stand for, in the order of the chars
Expand(chars, cr, crlf) ==
    IF chars = <<>> THEN <<>>
    ELSE Yield(Head(chars), cr, crlf) \o Expand(Tail(chars), cr, crlf)

\* the Newlines the source of src stands for under its flags
Forward == Expand(as_slice(src.inner.charset), src.cr, src.crlf)

\* C28: drained with next(), a Char2Newline over ascending chars yields the
\* Newline of each char other than '\r' in the order of the chars, and for
\* '\r' CarriageReturn then CrLf with both flags, CarriageReturn with cr
\* only, CrLf with crlf only, and nothing with neither, going on with the
\* char after it
C28_ForwardDisambiguation ==
    op = "next" =>
        /\ Len(out) <= Len(Forward)
        /\ out = SubSeq(Forward, 1, Len(out))
        /\ arg = None => out = Forward
        /\ arg # None => arg = out[Len(out)]

\* a '\r' was skipped with neither flag set and the chars after it yielded
C28_Witness ==
    /\ op = "next"
    /\ arg = None
    /\ ~src.cr
    /\ ~src.crlf
    /\ CR \in Range(as_slice(src.inner.charset))
    /\ NextLine \in Range(out)
    /\ LineFeed \in Range(out)

\* C29: drained with next_back() only, a Char2Newline yields the reverse of
\* what an identical Char2Newline yields drained with next() only, for every
\* ascending source and each of the four flag pairs
C29_BackwardSymmetric ==
    (op = "next_back" /\ arg = None) => back = Reverse(Collect(src))

\* ------------------------------------------------ rsearch() terminates: C30
\* the '\r' of a string
CountCR(s) == Cardinality({k \in 1 .. Len(s) : s[k] = CR})

\* C30: a pass of the loop of rsearch() that ends in continue leaves s_end
\* strictly smaller, the passes that do so are at most as many as the '\r'
\* of the string, and a call that has reached its loop returns
C30_RSearchTerminates ==
    /\ [][(op = "rsearch_loop" /\ op' = "rsearch_loop") => s_end' < s_end]_vars
    /\ [](n <= CountCR(text))
    /\ [](op = "rsearch_loop" => <>(op = "rsearch"))

\* rsearch() returned after two passes that each skipped a '\r'
C30_Witness ==
    /\ op = "rsearch"
    /\ n >= 2
    /\ ~a.cr

====
